-------------------------- MODULE TransportProofs --------------------------
(***************************************************************************)
(* Memory and file of BatchStore never run apart, alone and under          *)
(* HttpTransport; and every reachable state of HttpTransport is typed.     *)
(***************************************************************************)
EXTENDS TransportProperties, SequenceTheorems, TLAPS

-----------------------------------------------------------------------------
(* The store.                                                              *)

\* A put, acknowledge or pause begins, whatever its arguments.
MutationBegins ==
  \E b : PutBegins(b) \/ AcknowledgeBegins(b) \/ \E until : PauseBegins(b, until)

\* Everything that can happen to the store.
StoreStep ==
  \/ MutationBegins \/ WriteFails \/ ReplaceFile \/ WriteReturns
  \/ ProcessDies \/ PowerFails \/ Opens

\* The store starts with an empty file and nothing in memory.
LEMMA StoreInitMatches == StoreInit => MemoryMatchesFile
  BY DEF StoreInit, MemoryMatchesFile, NoWrite

\* No step of the store takes memory and file apart.
LEMMA StoreStepMatches ==
  ASSUME MemoryMatchesFile, StoreStep \/ UNCHANGED storeVars
  PROVE  MemoryMatchesFile'
<1>1. CASE MutationBegins
  <2>1. PICK contents : Mutates(contents)
    BY <1>1 DEF MutationBegins, PutBegins, AcknowledgeBegins, PauseBegins
  <2>2. write = NoWrite /\ open /\ write'.stage = "begun" /\ write'.previous = records
        /\ UNCHANGED <<open, file, survivors>>
    BY <2>1 DEF Mutates, Unlocked
  <2> QED
    BY <2>2 DEF MemoryMatchesFile, NoWrite
<1>2. CASE WriteFails
  BY <1>2 DEF WriteFails, MemoryMatchesFile, NoWrite
<1>3. CASE ReplaceFile
  <2>1. write.stage = "begun" /\ write' = [write EXCEPT !.stage = "replaced"]
    BY <1>3 DEF ReplaceFile
  <2>2. write'.stage # "begun"
    BY <2>1
  <2> QED
    BY <1>3, <2>1, <2>2 DEF ReplaceFile, MemoryMatchesFile
<1>4. CASE WriteReturns
  BY <1>4 DEF WriteReturns, MemoryMatchesFile, NoWrite
<1>5. CASE ProcessDies \/ PowerFails
  BY <1>5 DEF ProcessDies, PowerFails, Stops, MemoryMatchesFile, NoWrite
<1>6. CASE Opens
  BY <1>6 DEF Opens, MemoryMatchesFile
<1>7. CASE UNCHANGED storeVars
  BY <1>7 DEF storeVars, MemoryMatchesFile
<1> QED
  BY <1>1, <1>2, <1>3, <1>4, <1>5, <1>6, <1>7 DEF StoreStep

\* FileBatchStore by itself: whatever is put, acknowledged or paused, and
\* whatever fails or stops when, the records can always be told from the file.
THEOREM StoreConsistent == StoreSpec => []MemoryMatchesFile
<1>1. ASSUME [StoreNext]_storeVars PROVE StoreStep \/ UNCHANGED storeVars
  BY <1>1 DEF StoreNext, StoreStep, MutationBegins
<1>2. MemoryMatchesFile /\ [StoreNext]_storeVars => MemoryMatchesFile'
  BY <1>1, StoreStepMatches
<1> QED
  BY <1>2, StoreInitMatches, PTL DEF StoreSpec

-----------------------------------------------------------------------------
(* The transport.                                                          *)

\* The steps of a thread that leave the store alone.
Calm(t) ==
  \/ SendCalled(t) \/ RecoverCalled(t) \/ PersistCalled(t) \/ LockTaken(t)
  \/ LockTimesOut(t) \/ PutRefused(t) \/ PersistConfirms(t) \/ RecoverDone(t)
  \/ NextRecord(t) \/ PauseOver(t) \/ RetryWaits(t) \/ PostStarts(t)
  \/ PostTooLate(t) \/ FinalAnswer(t) \/ RetryableStatus(t) \/ NetworkError(t)

LEMMA CalmStore == ASSUME NEW t \in Threads, Calm(t) PROVE UNCHANGED storeVars
  BY DEF Calm, SendCalled, RecoverCalled, PersistCalled, LockTaken, LockTimesOut, PutRefused,
         PersistConfirms, RecoverDone, NextRecord, PauseOver, RetryWaits, PostStarts,
         PostTooLate, FinalAnswer, RetryableStatus, NetworkError

\* send, persist and recover touch the store through its operations only.
LEMMA TransportStep == [Next]_vars => StoreStep \/ UNCHANGED storeVars
<1> SUFFICES ASSUME [Next]_vars PROVE StoreStep \/ UNCHANGED storeVars
  OBVIOUS
<1>1. ASSUME NEW t \in Threads, Calm(t) PROVE UNCHANGED storeVars
  BY <1>1, CalmStore
<1>2. ASSUME NEW t \in Threads, PutStarts(t) \/ AcknowledgeStarts(t) \/ PauseStarts(t)
      PROVE  StoreStep
  BY <1>2 DEF PutStarts, AcknowledgeStarts, PauseStarts, StoreStep, MutationBegins
<1>3. ASSUME NEW t \in Threads, MutationReturns(t) \/ MutationRaises(t)
      PROVE  StoreStep
  BY <1>3 DEF MutationReturns, MutationRaises, StoreStep
<1>4. ASSUME Replace \/ Crash \/ Restart PROVE StoreStep
  BY <1>4 DEF Replace, Crash, Restart, StoreStep
<1>5. CASE Tick \/ UNCHANGED vars
  BY <1>5 DEF Tick, vars
<1> QED
  BY <1>1, <1>2, <1>3, <1>4, <1>5 DEF Next, Step, Calm

\* The same of the store under the transport's threads, with their races,
\* failing writes, crashes and restarts.
THEOREM TransportConsistent == Spec => []MemoryMatchesFile
<1>1. Init => MemoryMatchesFile
  BY StoreInitMatches DEF Init
<1>2. MemoryMatchesFile /\ [Next]_vars => MemoryMatchesFile'
  BY TransportStep, StoreStepMatches
<1> QED
  BY <1>1, <1>2, PTL DEF Spec

-----------------------------------------------------------------------------
(* Types.  The inductive invariant adds to TypeOK what a thread has in     *)
(* hand at each place.                                                     *)

\* Where a thread is with the batch of one record.
Sending == {"paused", "attempt", "backoff", "post", "ack", "acking", "giveup", "pausing"}

\* What a call has in hand at a place.
InPlace(place, c) ==
  /\ place \in {"put", "putting", "confirm"} => c.op \in {"send", "persist"} /\ c.batch \in Batch
  /\ place = "lock" => \/ c.op = "send" /\ c.batch \in Batch
                       \/ c.op = "recover"
  /\ place = "next" => c.op = "recover"
  /\ place \in Sending => /\ c.op \in {"send", "recover"} /\ c.batch \in Batch
                          /\ c.op = "recover" => c.todo # <<>>
  /\ place \in {"backoff", "post"} => c.attempt <= MaxRetries

CallsInPlace == \A t \in Threads : InPlace(pc[t], call[t])

\* The inductive invariant: the parts of TypeOK, and CallsInPlace.
StoreTyped ==
  /\ open \in BOOLEAN
  /\ records \in Seq(Records) /\ file \in Seq(Records)
  /\ survivors \subseteq Seq(Records)
  /\ write \in [stage : {"none", "begun", "replaced"}, previous : Seq(Records)]

CallsTyped == pc \in [Threads -> Places] /\ call \in [Threads -> CallStates]

HistoryTyped ==
  /\ {used, promised, received, answered, gone} \subseteq SUBSET Batch
  /\ notBefore \in [Batch -> Nat]

ClockTyped == now \in 0 .. MaxTime

TransportTyped == StoreTyped /\ CallsTyped /\ CallsInPlace /\ HistoryTyped /\ ClockTyped

-----------------------------------------------------------------------------
(* Lemmas about sequences of records.                                      *)

\* Removing one element of a sequence moves the later ones up.
LEMMA RemoveAtShape ==
  ASSUME NEW S, NEW s \in Seq(S), NEW i \in DOMAIN s
  PROVE  /\ RemoveAt(s, i) \in Seq(S)
         /\ Len(RemoveAt(s, i)) = Len(s) - 1
         /\ \A k \in 1 .. Len(s) - 1 :
              RemoveAt(s, i)[k] = IF k < i THEN s[k] ELSE s[k + 1]
<1> DEFINE left == SubSeq(s, 1, i - 1)
           right == SubSeq(s, i + 1, Len(s))
<1>1. i \in 1 .. Len(s) /\ Len(s) \in Nat
  OBVIOUS
<1>2. left \in Seq(S) /\ Len(left) = i - 1 /\ \A j \in 1 .. i - 1 : left[j] = s[j]
  BY <1>1
<1>3. /\ right \in Seq(S) /\ Len(right) = Len(s) - i
      /\ \A j \in 1 .. Len(s) - i : right[j] = s[i + j]
  BY <1>1
<1>4. RemoveAt(s, i) = left \o right
  BY DEF RemoveAt
<1> HIDE DEF left, right
<1>5. /\ left \o right \in Seq(S)
      /\ Len(left \o right) = Len(left) + Len(right)
      /\ \A k \in 1 .. Len(left) + Len(right) :
           (left \o right)[k] = IF k <= Len(left) THEN left[k] ELSE right[k - Len(left)]
  BY <1>2, <1>3, ConcatProperties
<1>6. Len(left) + Len(right) = Len(s) - 1 /\ Len(left) = i - 1
  BY <1>1, <1>2, <1>3
<1>7. ASSUME NEW k \in 1 .. Len(s) - 1
      PROVE  (left \o right)[k] = IF k < i THEN s[k] ELSE s[k + 1]
  <2>1. (left \o right)[k] = IF k <= i - 1 THEN left[k] ELSE right[k - (i - 1)]
    BY <1>5, <1>6
  <2>2. CASE k < i
    BY <1>1, <1>2, <2>1, <2>2
  <2>3. CASE ~(k < i)
    <3>1. k - (i - 1) \in 1 .. Len(s) - i /\ i + (k - (i - 1)) = k + 1
      BY <1>1, <2>3
    <3>2. right[k - (i - 1)] = s[k + 1]
      BY <1>3, <3>1
    <3> QED
      BY <1>1, <2>1, <2>3, <3>2
  <2> QED
    BY <2>2, <2>3
<1> QED
  BY <1>4, <1>5, <1>6, <1>7

\* Removing one element of a sequence leaves the others.
LEMMA RemoveAtKeeps ==
  ASSUME NEW S, NEW s \in Seq(S), NEW i \in DOMAIN s
  PROVE  /\ RemoveAt(s, i) \in Seq(S)
         /\ \A j \in DOMAIN s \ {i} :
              \E k \in DOMAIN RemoveAt(s, i) : RemoveAt(s, i)[k] = s[j]
<1> DEFINE rest == RemoveAt(s, i)
<1>1. i \in 1 .. Len(s) /\ Len(s) \in Nat /\ DOMAIN s = 1 .. Len(s)
  OBVIOUS
<1>2. /\ rest \in Seq(S) /\ Len(rest) = Len(s) - 1
      /\ \A k \in 1 .. Len(s) - 1 : rest[k] = IF k < i THEN s[k] ELSE s[k + 1]
  BY RemoveAtShape
<1> HIDE DEF rest
<1>3. DOMAIN rest = 1 .. Len(s) - 1
  BY <1>2
<1>4. ASSUME NEW j \in DOMAIN s \ {i} PROVE \E k \in DOMAIN rest : rest[k] = s[j]
  <2>1. CASE j < i
    BY <1>1, <1>2, <1>3, <2>1
  <2>2. CASE j > i
    <3>1. j - 1 \in 1 .. Len(s) - 1 /\ ~(j - 1 < i) /\ (j - 1) + 1 = j
      BY <1>1, <2>2
    <3>2. rest[j - 1] = s[j]
      BY <1>2, <3>1
    <3> QED
      BY <1>3, <3>1, <3>2
  <2> QED
    BY <1>1, <2>1, <2>2
<1> QED
  BY <1>2, <1>4 DEF rest

\* Changing elements of a sequence leaves a sequence.
LEMMA ChangedTypes ==
  ASSUME NEW S, NEW s \in Seq(S), NEW f, DOMAIN f = DOMAIN s,
         \A i \in DOMAIN s : f[i] \in S, f = [i \in DOMAIN s |-> f[i]]
  PROVE  f \in Seq(S)
<1>1. Len(s) \in Nat /\ DOMAIN s = 1 .. Len(s)
  OBVIOUS
<1>2. f \in [1 .. Len(s) -> S]
  BY <1>1
<1> QED
  BY <1>1, <1>2, SeqDef

\* A record is well typed.
LEMMA RecordTypes ==
  ASSUME NEW b \in Batch, NEW until \in Nat
  PROVE  Record(b, until) \in Records
  BY DEF Record, Records

-----------------------------------------------------------------------------
(* Types of the store.                                                     *)

\* What put, acknowledge and pause make of typed records is typed.
LEMMA MutationTypes ==
  ASSUME StoreTyped, NEW b \in Batch, NEW until \in Nat,
         PutBegins(b) \/ AcknowledgeBegins(b) \/ PauseBegins(b, until)
  PROVE  StoreTyped'
<1>1. \E contents \in Seq(Records) : Mutates(contents)
  <2>1. CASE PutBegins(b)
    <3>1. Record(b, 0) \in Records
      BY RecordTypes
    <3>2. Append(records, Record(b, 0)) \in Seq(Records)
      BY <3>1 DEF StoreTyped
    <3> QED
      BY <2>1, <3>2 DEF PutBegins
  <2>2. CASE AcknowledgeBegins(b)
    BY <2>2, RemoveAtKeeps DEF AcknowledgeBegins, StoreTyped
  <2>3. CASE PauseBegins(b, until)
    <3> DEFINE changed ==
          [i \in DOMAIN records |->
             IF records[i].batch = b THEN Record(b, until) ELSE records[i]]
    <3>1. \A i \in DOMAIN records : changed[i] \in Records
      BY RecordTypes DEF StoreTyped
    <3>2. DOMAIN changed = DOMAIN records /\ changed = [i \in DOMAIN records |-> changed[i]]
      OBVIOUS
    <3>3. Mutates(changed)
      BY <2>3 DEF PauseBegins
    <3> HIDE DEF changed
    <3>4. changed \in Seq(Records)
      BY <3>1, <3>2, ChangedTypes DEF StoreTyped
    <3> QED
      BY <3>3, <3>4
  <2> QED
    BY <2>1, <2>2, <2>3
<1>2. PICK contents \in Seq(Records) : Mutates(contents)
  BY <1>1
<1> QED
  BY <1>2 DEF Mutates, StoreTyped

\* The rest of what happens to the store keeps it typed.
LEMMA StoreTypes ==
  ASSUME StoreTyped,
         \/ WriteFails \/ ReplaceFile \/ WriteReturns \/ ProcessDies \/ PowerFails
         \/ Opens \/ UNCHANGED storeVars
  PROVE  StoreTyped'
<1>1. CASE WriteFails
  BY <1>1 DEF WriteFails, StoreTyped, NoWrite
<1>2. CASE ReplaceFile
  <2>1. write' \in [stage : {"none", "begun", "replaced"}, previous : Seq(Records)]
    BY <1>2 DEF ReplaceFile, StoreTyped
  <2>2. UNCHANGED <<open, records>> /\ file' = records
        /\ survivors' = survivors \cup {records}
    BY <1>2 DEF ReplaceFile
  <2> QED
    BY <2>1, <2>2 DEF StoreTyped
<1>3. CASE WriteReturns
  BY <1>3 DEF WriteReturns, StoreTyped, NoWrite
<1>4. CASE ProcessDies \/ PowerFails
  <2>1. open' = FALSE /\ records' = <<>> /\ write' = NoWrite
    BY <1>4 DEF ProcessDies, PowerFails, Stops
  <2>2. file' \in Seq(Records) /\ survivors' \subseteq Seq(Records)
    <3>1. \/ UNCHANGED <<file, survivors>>
          \/ file' \in survivors /\ survivors' = {file'}
      BY <1>4 DEF ProcessDies, PowerFails
    <3>2. CASE UNCHANGED <<file, survivors>>
      BY <3>2 DEF StoreTyped
    <3>3. CASE file' \in survivors /\ survivors' = {file'}
      BY <3>3 DEF StoreTyped
    <3> QED
      BY <3>1, <3>2, <3>3
  <2>3. <<>> \in Seq(Records)
    OBVIOUS
  <2>4. write' \in [stage : {"none", "begun", "replaced"}, previous : Seq(Records)]
    BY <2>1, <2>3 DEF NoWrite
  <2> QED
    BY <2>1, <2>2, <2>3, <2>4 DEF StoreTyped
<1>5. CASE Opens
  BY <1>5 DEF Opens, StoreTyped
<1>6. CASE UNCHANGED storeVars
  BY <1>6 DEF storeVars, StoreTyped
<1> QED
  BY <1>1, <1>2, <1>3, <1>4, <1>5, <1>6

-----------------------------------------------------------------------------
(* The calls.                                                              *)

\* A thread goes to a place with what it has in hand there.
LEMMA GoesTypes ==
  ASSUME CallsTyped, CallsInPlace, NEW t \in Threads, NEW place \in Places,
         NEW c \in CallStates, InPlace(place, c), Goes(t, place, c)
  PROVE  CallsTyped' /\ CallsInPlace'
<1>1. CallsTyped'
  BY DEF CallsTyped, Goes, Move
<1>2. ASSUME NEW u \in Threads PROVE InPlace(pc'[u], call'[u])
  <2>1. CASE u = t
    BY <2>1 DEF CallsTyped, Goes, Move
  <2>2. CASE u # t
    <3>1. pc'[u] = pc[u] /\ call'[u] = call[u]
      BY <2>2 DEF CallsTyped, Goes, Move
    <3> QED
      BY <3>1 DEF CallsInPlace
  <2> QED
    BY <2>1, <2>2
<1> QED
  BY <1>1, <1>2 DEF CallsInPlace, InPlace

\* A thread moves on with the same arguments and locals.
LEMMA MoveTypes ==
  ASSUME CallsTyped, CallsInPlace, NEW t \in Threads, NEW place \in Places,
         InPlace(place, call[t]), Move(t, place), UNCHANGED call
  PROVE  CallsTyped' /\ CallsInPlace'
<1>1. call[t] \in CallStates /\ Goes(t, place, call[t])
  BY DEF CallsTyped, Goes
<1> QED
  BY <1>1, GoesTypes

\* Nothing changes in place when no call does.
LEMMA NothingGoes ==
  ASSUME CallsTyped, CallsInPlace, UNCHANGED <<pc, call>>
  PROVE  CallsTyped' /\ CallsInPlace'
  BY DEF CallsTyped, CallsInPlace, InPlace

\* The call before it has any arguments is typed.
LEMMA NoCallTypes == NoCall \in CallStates
<1>1. <<>> \in Seq(Records)
  OBVIOUS
<1>2. Never \in Nat /\ 0 \in 0 .. MaxRetries + 1
  BY TransportAssumption DEF Never
<1> QED
  BY <1>1, <1>2 DEF NoCall, CallStates, NoHeader

\* A call that returns is typed.
LEMMA ReturnsTypes ==
  ASSUME CallsTyped, CallsInPlace, NEW t \in Threads,
         NEW outcome \in {"success", "rejected", "retained", "failed", "true", "false"},
         Returns(t, outcome)
  PROVE  CallsTyped' /\ CallsInPlace'
<1> DEFINE c == [NoCall EXCEPT !.op = call[t].op, !.batch = call[t].batch,
                               !.outcome = outcome]
<1>1. c \in CallStates
  BY NoCallTypes DEF CallsTyped, CallStates
<1>2. InPlace("idle", c) /\ "idle" \in Places
  BY DEF InPlace, Places, Sending
<1>3. Goes(t, "idle", c)
  BY DEF Returns
<1> QED
  BY <1>1, <1>2, <1>3, GoesTypes

\* So is one that fails.
LEMMA FailsTypes ==
  ASSUME CallsTyped, CallsInPlace, NEW t \in Threads, NEW contents, FailsWith(t, contents)
  PROVE  CallsTyped' /\ CallsInPlace'
<1>1. \E outcome \in {"false", "retained", "failed"} : Returns(t, outcome)
  BY DEF FailsWith
<1> QED
  BY <1>1, ReturnsTypes

-----------------------------------------------------------------------------
(* The steps.                                                              *)

Typed == CallsTyped /\ CallsInPlace

\* A deadline is a time.
LEMMA DeadlinesTypes ==
  ASSUME ClockTyped, NEW bounded \in BOOLEAN
  PROVE  Deadlines(bounded) \subseteq Nat
  BY TransportAssumption DEF ClockTyped, Deadlines, Never

\* send, recover and persist are called with typed arguments.
LEMMA CalledTypes ==
  ASSUME Typed, ClockTyped, NEW t \in Threads,
         SendCalled(t) \/ RecoverCalled(t) \/ PersistCalled(t)
  PROVE  Typed'
<1>1. \E place \in Places, c \in CallStates : InPlace(place, c) /\ Goes(t, place, c)
  <2>1. CASE SendCalled(t)
    <3>1. PICK bounded \in BOOLEAN, b \in Batch \ used :
            \E d \in Deadlines(bounded) :
              Goes(t, "lock", [NoCall EXCEPT !.op = "send", !.batch = b, !.deadline = d])
      BY <2>1 DEF SendCalled
    <3>2. PICK d \in Deadlines(bounded) :
            Goes(t, "lock", [NoCall EXCEPT !.op = "send", !.batch = b, !.deadline = d])
      BY <3>1
    <3> DEFINE c == [NoCall EXCEPT !.op = "send", !.batch = b, !.deadline = d]
    <3>3. d \in Nat
      BY DeadlinesTypes
    <3>4. c \in CallStates /\ c.op = "send" /\ c.batch \in Batch
      BY <3>3, NoCallTypes DEF CallStates
    <3>5. InPlace("lock", c) /\ "lock" \in Places
      BY <3>4 DEF InPlace, Places, Sending
    <3> QED
      BY <3>2, <3>4, <3>5
  <2>2. CASE RecoverCalled(t)
    <3>1. PICK bounded \in BOOLEAN :
            \E d \in Deadlines(bounded) :
              Goes(t, "lock", [NoCall EXCEPT !.op = "recover", !.deadline = d])
      BY <2>2 DEF RecoverCalled
    <3>2. PICK d \in Deadlines(bounded) :
            Goes(t, "lock", [NoCall EXCEPT !.op = "recover", !.deadline = d])
      BY <3>1
    <3> DEFINE c == [NoCall EXCEPT !.op = "recover", !.deadline = d]
    <3>3. d \in Nat
      BY DeadlinesTypes
    <3>4. c \in CallStates /\ c.op = "recover"
      BY <3>3, NoCallTypes DEF CallStates
    <3>5. InPlace("lock", c) /\ "lock" \in Places
      BY <3>4 DEF InPlace, Places, Sending
    <3> QED
      BY <3>2, <3>4, <3>5
  <2>3. CASE PersistCalled(t)
    <3>1. PICK b \in Batch :
            Goes(t, "put", [NoCall EXCEPT !.op = "persist", !.batch = b])
      BY <2>3 DEF PersistCalled
    <3> DEFINE c == [NoCall EXCEPT !.op = "persist", !.batch = b]
    <3>2. c \in CallStates /\ c.op = "persist" /\ c.batch \in Batch
      BY NoCallTypes DEF CallStates
    <3>3. InPlace("put", c) /\ "put" \in Places
      BY <3>2 DEF InPlace, Places, Sending
    <3> QED
      BY <3>1, <3>2, <3>3
  <2> QED
    BY <2>1, <2>2, <2>3
<1> QED
  BY <1>1, GoesTypes DEF Typed

\* Taking the delivery lock, or not in time.
LEMMA LockTypes ==
  ASSUME Typed, StoreTyped, NEW t \in Threads, LockTaken(t) \/ LockTimesOut(t)
  PROVE  Typed'
<1> DEFINE c == call[t]
           replay == [call[t] EXCEPT !.todo = records]
<1>1. c \in CallStates /\ InPlace(pc[t], c)
  BY DEF Typed, CallsTyped, CallsInPlace
<1>2. CASE LockTaken(t) /\ c.op = "send"
  <2>1. pc[t] = "lock" /\ Goes(t, "put", c)
    BY <1>2 DEF LockTaken
  <2>2. InPlace("put", c) /\ "put" \in Places
    BY <1>1, <1>2, <2>1 DEF InPlace, Places, Sending
  <2> QED
    BY <1>1, <2>1, <2>2, GoesTypes DEF Typed
<1>3. CASE LockTaken(t) /\ c.op # "send"
  <2>1. pc[t] = "lock" /\ Goes(t, "next", replay)
    BY <1>3 DEF LockTaken
  <2>2. replay \in CallStates /\ replay.op = c.op
    BY <1>1 DEF CallStates, StoreTyped
  <2>3. InPlace("next", replay) /\ "next" \in Places
    BY <1>1, <1>3, <2>1, <2>2 DEF InPlace, Places, Sending
  <2> QED
    BY <2>1, <2>2, <2>3, GoesTypes DEF Typed
<1>4. CASE LockTimesOut(t)
  <2>1. Returns(t, "failed") \/ Returns(t, "false")
    BY <1>4 DEF LockTimesOut
  <2> QED
    BY <2>1, ReturnsTypes DEF Typed
<1> QED
  BY <1>2, <1>3, <1>4

\* A put starts, or is refused; persist confirms.
LEMMA PutTypes ==
  ASSUME Typed, StoreTyped, NEW t \in Threads,
         PutStarts(t) \/ PutRefused(t) \/ PersistConfirms(t)
  PROVE  Typed' /\ StoreTyped'
<1>1. call[t] \in CallStates /\ InPlace(pc[t], call[t])
  BY DEF Typed, CallsTyped, CallsInPlace
<1>2. CASE PutStarts(t)
  <2>1. pc[t] = "put" /\ PutBegins(call[t].batch) /\ Move(t, "putting") /\ UNCHANGED call
    BY <1>2 DEF PutStarts
  <2>2. call[t].op \in {"send", "persist"} /\ call[t].batch \in Batch
    BY <1>1, <2>1 DEF InPlace
  <2>3. InPlace("putting", call[t]) /\ "putting" \in Places
    BY <2>2 DEF InPlace, Places, Sending
  <2>4. StoreTyped'
    BY <2>1, <2>2, MutationTypes
  <2> QED
    BY <2>1, <2>3, <2>4, MoveTypes DEF Typed
<1>3. CASE PutRefused(t) \/ PersistConfirms(t)
  <2>1. UNCHANGED storeVars
    BY <1>3 DEF PutRefused, PersistConfirms
  <2>2. \/ FailsWith(t, records)
        \/ Returns(t, "true") \/ Returns(t, "false")
    BY <1>3 DEF PutRefused, PersistConfirms
  <2> QED
    BY <2>1, <2>2, StoreTypes, FailsTypes, ReturnsTypes DEF Typed
<1> QED
  BY <1>2, <1>3

\* The rest of a replay after its first record.
LEMMA RestTypes ==
  ASSUME Typed, NEW t \in Threads, call[t].todo # <<>>, call[t].op = "recover",
         Goes(t, "next", [call[t] EXCEPT !.todo = Tail(@)])
  PROVE  Typed'
<1> DEFINE rest == [call[t] EXCEPT !.todo = Tail(@)]
<1>1. call[t] \in CallStates
  BY DEF Typed, CallsTyped
<1>2. call[t].todo \in Seq(Records)
  BY <1>1 DEF CallStates
<1>3. Tail(call[t].todo) \in Seq(Records)
  BY <1>2
<1>4. rest \in CallStates /\ rest.op = "recover"
  BY <1>1, <1>3 DEF CallStates
<1>5. InPlace("next", rest) /\ "next" \in Places
  BY <1>4 DEF InPlace, Places, Sending
<1> QED
  BY <1>4, <1>5, GoesTypes DEF Typed

\* A mutation of the store returns or raises.
LEMMA MutationDoneTypes ==
  ASSUME Typed, StoreTyped, NEW t \in Threads, MutationReturns(t) \/ MutationRaises(t)
  PROVE  Typed' /\ StoreTyped'
<1>1. call[t] \in CallStates /\ InPlace(pc[t], call[t])
  BY DEF Typed, CallsTyped, CallsInPlace
<1>2. StoreTyped'
  <2>1. WriteReturns \/ WriteFails
    BY DEF MutationReturns, MutationRaises
  <2> QED
    BY <2>1, StoreTypes
<1>3. CASE MutationReturns(t) /\ pc[t] = "putting"
  <2> DEFINE place == IF call[t].op = "send" THEN "attempt" ELSE "confirm"
  <2>1. Move(t, place) /\ UNCHANGED call
    BY <1>3 DEF MutationReturns
  <2>2. call[t].op \in {"send", "persist"} /\ call[t].batch \in Batch
    BY <1>1, <1>3 DEF InPlace
  <2>3. InPlace(place, call[t]) /\ place \in Places
    BY <2>2 DEF InPlace, Places, Sending
  <2> QED
    BY <1>2, <2>1, <2>3, MoveTypes DEF Typed
<1>4. CASE MutationReturns(t) /\ pc[t] = "acking"
  <2>1. \/ Returns(t, "success") \/ Returns(t, "rejected")
        \/ /\ call[t].op # "send"
           /\ Goes(t, "next", [call[t] EXCEPT !.todo = Tail(@)])
    BY <1>4 DEF MutationReturns
  <2>2. call[t].op # "send" => call[t].op = "recover" /\ call[t].todo # <<>>
    BY <1>1, <1>4 DEF InPlace, Sending
  <2>3. CASE Returns(t, "success") \/ Returns(t, "rejected")
    BY <1>2, <2>3, ReturnsTypes DEF Typed
  <2>4. CASE call[t].op # "send" /\ Goes(t, "next", [call[t] EXCEPT !.todo = Tail(@)])
    BY <1>2, <2>2, <2>4, RestTypes
  <2> QED
    BY <2>1, <2>3, <2>4
<1>5. CASE MutationReturns(t) /\ pc[t] = "pausing"
  <2>1. FailsWith(t, records)
    BY <1>5 DEF MutationReturns
  <2> QED
    BY <1>2, <2>1, FailsTypes DEF Typed
<1>6. CASE MutationRaises(t)
  <2>1. FailsWith(t, records')
    BY <1>6 DEF MutationRaises
  <2> QED
    BY <1>2, <2>1, FailsTypes DEF Typed
<1> QED
  BY <1>3, <1>4, <1>5, <1>6 DEF MutationReturns

\* The loop of recover.
LEMMA ReplayTypes ==
  ASSUME Typed, ClockTyped, NEW t \in Threads,
         RecoverDone(t) \/ NextRecord(t) \/ PauseOver(t)
  PROVE  Typed'
<1>1. call[t] \in CallStates /\ InPlace(pc[t], call[t])
  BY DEF Typed, CallsTyped, CallsInPlace
<1>2. CASE RecoverDone(t)
  <2>1. Returns(t, "true")
    BY <1>2 DEF RecoverDone
  <2> QED
    BY <2>1, ReturnsTypes DEF Typed
<1>3. CASE NextRecord(t)
  <2> DEFINE record == Head(call[t].todo)
             c == [call[t] EXCEPT !.batch = record.batch, !.attempt = 0,
                                  !.after = NoHeader, !.until = 0, !.wake = record.until]
  <2>1. pc[t] = "next" /\ call[t].todo # <<>>
    BY <1>3 DEF NextRecord
  <2>2. Goes(t, "attempt", c) \/ Goes(t, "paused", c) \/ Returns(t, "false")
    BY <1>3 DEF NextRecord
  <2>3. record \in Records
    <3>1. call[t].todo \in Seq(Records)
      BY <1>1 DEF CallStates
    <3> QED
      BY <2>1, <3>1
  <2>4. c \in CallStates /\ c.batch \in Batch /\ c.op = "recover" /\ c.todo # <<>>
        /\ c.attempt = 0
    <3>1. record.batch \in Batch /\ record.until \in Nat /\ record.until \in Int
      BY <2>3 DEF Records
    <3>2. 0 \in 0 .. MaxRetries + 1
      BY TransportAssumption
    <3>3. call[t].op = "recover"
      BY <1>1, <2>1 DEF InPlace
    <3> HIDE DEF record
    <3> QED
      BY <1>1, <2>1, <3>1, <3>2, <3>3 DEF CallStates
  <2>5. InPlace("attempt", c) /\ InPlace("paused", c) /\ {"attempt", "paused"} \subseteq Places
    BY <2>4 DEF InPlace, Places, Sending
  <2>6. CASE Goes(t, "attempt", c) \/ Goes(t, "paused", c)
    BY <2>4, <2>5, <2>6, GoesTypes DEF Typed
  <2>7. CASE Returns(t, "false")
    BY <2>7, ReturnsTypes DEF Typed
  <2> QED
    BY <2>2, <2>6, <2>7
<1>4. CASE PauseOver(t)
  <2>1. pc[t] = "paused" /\ Move(t, "attempt") /\ UNCHANGED call
    BY <1>4 DEF PauseOver
  <2>2. InPlace("attempt", call[t]) /\ "attempt" \in Places
    BY <1>1, <2>1 DEF InPlace, Places, Sending
  <2> QED
    BY <2>1, <2>2, MoveTypes DEF Typed
<1> QED
  BY <1>2, <1>3, <1>4

\* The time an attempt is delayed by is a number.
LEMMA DelayTypes ==
  ASSUME NEW t \in Threads, call[t] \in CallStates, call[t].attempt > 0
  PROVE  Delay(t) \in Int
<1>1. call[t].attempt - 1 \in Nat
  BY DEF CallStates
<1>2. 2 ^ (call[t].attempt - 1) \in Int
  BY <1>1
<1>3. BackoffBase * 2 ^ (call[t].attempt - 1) \in Int
  BY <1>2, TransportAssumption
<1>4. Backoff(call[t].attempt) \in Int
  BY <1>3, TransportAssumption DEF Backoff, AtMost
<1>5. call[t].after # NoHeader => call[t].after \in Int
  BY DEF CallStates
<1> QED
  BY <1>4, <1>5 DEF Delay

\* Between two attempts.
LEMMA RetryTypes ==
  ASSUME Typed, ClockTyped, NEW t \in Threads, RetryWaits(t)
  PROVE  Typed'
<1> DEFINE c == [call[t] EXCEPT !.wake = now + Delay(t), !.after = NoHeader]
<1>1. call[t] \in CallStates /\ InPlace(pc[t], call[t])
  BY DEF Typed, CallsTyped, CallsInPlace
<1>2. pc[t] = "attempt" /\ call[t].attempt > 0
  BY DEF RetryWaits
<1>3. CASE Goes(t, "giveup", call[t])
  <2>1. InPlace("giveup", call[t]) /\ "giveup" \in Places
    BY <1>1, <1>2 DEF InPlace, Places, Sending
  <2> QED
    BY <1>1, <1>3, <2>1, GoesTypes DEF Typed
<1>4. CASE ~Exhausted(t) /\ Goes(t, "backoff", c)
  <2>1. now + Delay(t) \in Int
    BY <1>1, <1>2, DelayTypes, TransportAssumption DEF ClockTyped
  <2>2. c \in CallStates /\ c.op = call[t].op /\ c.batch = call[t].batch
        /\ c.todo = call[t].todo /\ c.attempt = call[t].attempt
    BY <1>1, <2>1 DEF CallStates
  <2>3. c.attempt <= MaxRetries
    <3>1. call[t].attempt \in Int /\ MaxRetries \in Int
      BY <1>1, TransportAssumption DEF CallStates
    <3>2. ~(call[t].attempt > MaxRetries)
      BY <1>4 DEF Exhausted
    <3> HIDE DEF c
    <3> QED
      BY <2>2, <3>1, <3>2
  <2>4. InPlace("backoff", c) /\ "backoff" \in Places
    BY <1>1, <1>2, <2>2, <2>3 DEF InPlace, Places, Sending
  <2> QED
    BY <1>4, <2>2, <2>4, GoesTypes DEF Typed
<1> QED
  BY <1>3, <1>4 DEF RetryWaits

\* The start of an attempt, in time or too late.
LEMMA PostTypes ==
  ASSUME Typed, ClockTyped, NEW t \in Threads, PostStarts(t) \/ PostTooLate(t)
  PROVE  Typed'
<1> DEFINE c == [call[t] EXCEPT !.wake = now + PostTimeout(t)]
<1>1. call[t] \in CallStates /\ InPlace(pc[t], call[t])
  BY DEF Typed, CallsTyped, CallsInPlace
<1>2. AttemptDue(t)
  BY DEF PostStarts, PostTooLate
<1>3. pc[t] \in Sending /\ call[t].attempt <= MaxRetries
  BY <1>1, <1>2, TransportAssumption DEF AttemptDue, InPlace, Sending
<1>4. CASE PostStarts(t)
  <2>1. now + PostTimeout(t) \in Int
    <3>1. now \in Int /\ call[t].deadline \in Int /\ RequestTimeout \in Int
      BY <1>1, TransportAssumption DEF ClockTyped, CallStates
    <3> QED
      BY <3>1 DEF PostTimeout, AtMost
  <2>2. c \in CallStates /\ c.op = call[t].op /\ c.batch = call[t].batch
        /\ c.todo = call[t].todo /\ c.attempt = call[t].attempt
    BY <1>1, <2>1 DEF CallStates
  <2>3. InPlace("post", c) /\ "post" \in Places
    BY <1>1, <1>3, <2>2 DEF InPlace, Places, Sending
  <2> QED
    BY <1>4, <2>2, <2>3, GoesTypes DEF Typed, PostStarts
<1>5. CASE PostTooLate(t)
  <2>1. InPlace("giveup", call[t]) /\ "giveup" \in Places
    BY <1>1, <1>3 DEF InPlace, Places, Sending
  <2> QED
    BY <1>5, <2>1, MoveTypes DEF Typed, PostTooLate
<1> QED
  BY <1>4, <1>5

\* Another attempt is made after a request without a final answer.
LEMMA AgainTypes ==
  ASSUME Typed, NEW t \in Threads, NEW after \in Nat \cup {NoHeader}, NEW until \in Nat,
         pc[t] = "post", Again(t, after, until)
  PROVE  Typed'
<1> DEFINE c == [call[t] EXCEPT !.attempt = @ + 1, !.after = after, !.until = until]
<1>1. call[t] \in CallStates /\ InPlace(pc[t], call[t])
  BY DEF Typed, CallsTyped, CallsInPlace
<1>2. call[t].attempt + 1 \in 0 .. MaxRetries + 1
  BY <1>1, TransportAssumption DEF InPlace, CallStates
<1>3. c \in CallStates /\ c.op = call[t].op /\ c.batch = call[t].batch /\ c.todo = call[t].todo
  BY <1>1, <1>2 DEF CallStates
<1>4. InPlace("attempt", c) /\ "attempt" \in Places
  BY <1>1, <1>3 DEF InPlace, Places, Sending
<1> QED
  BY <1>3, <1>4, GoesTypes DEF Typed, Again

\* The answers to a request, and what is remembered of them.
LEMMA AnswerTypes ==
  ASSUME Typed, HistoryTyped, ClockTyped, NEW t \in Threads,
         FinalAnswer(t) \/ RetryableStatus(t) \/ NetworkError(t)
  PROVE  Typed' /\ HistoryTyped'
<1>1. call[t] \in CallStates /\ InPlace(pc[t], call[t])
  BY DEF Typed, CallsTyped, CallsInPlace
<1>2. pc[t] = "post" /\ call[t].batch \in Batch /\ call[t].until \in Nat
  BY <1>1 DEF FinalAnswer, RetryableStatus, NetworkError, InPlace, Sending, CallStates
<1>3. CASE FinalAnswer(t)
  <2>1. PICK success \in BOOLEAN :
          /\ Goes(t, "ack", [call[t] EXCEPT !.success = success])
          /\ received' = IF success THEN received \cup {call[t].batch} ELSE received
    BY <1>3 DEF FinalAnswer
  <2> DEFINE c == [call[t] EXCEPT !.success = success]
  <2>2. c \in CallStates /\ c.op = call[t].op /\ c.batch = call[t].batch
        /\ c.todo = call[t].todo
    BY <1>1 DEF CallStates
  <2>3. InPlace("ack", c) /\ "ack" \in Places
    BY <1>1, <1>2, <2>2 DEF InPlace, Places, Sending
  <2>4. Typed'
    BY <2>1, <2>2, <2>3, GoesTypes DEF Typed
  <2>5. /\ answered' = answered \cup {call[t].batch}
        /\ received' \subseteq received \cup {call[t].batch}
        /\ UNCHANGED <<used, promised, gone, notBefore>>
    BY <1>3, <2>1 DEF FinalAnswer
  <2> QED
    BY <1>2, <2>4, <2>5 DEF HistoryTyped
<1>4. CASE RetryableStatus(t)
  <2>1. \E after \in Nat \cup {NoHeader}, until \in Nat :
          /\ Again(t, after, until)
          /\ \/ UNCHANGED notBefore
             \/ notBefore' = [notBefore EXCEPT ![call[t].batch] = until]
    <3>1. CASE Again(t, NoHeader, call[t].until) /\ UNCHANGED notBefore
      BY <1>2, <3>1
    <3>2. CASE \E seconds \in RetryAfters :
                 LET after == AtMost(seconds, MaxRetryAfter) IN
                 /\ Again(t, after, now + after)
                 /\ notBefore' = [notBefore EXCEPT ![call[t].batch] = now + after]
      <4>1. PICK seconds \in RetryAfters :
              /\ Again(t, AtMost(seconds, MaxRetryAfter),
                       now + AtMost(seconds, MaxRetryAfter))
              /\ notBefore' = [notBefore EXCEPT ![call[t].batch] =
                                 now + AtMost(seconds, MaxRetryAfter)]
        BY <3>2
      <4>2. AtMost(seconds, MaxRetryAfter) \in Nat /\ now \in Nat
        BY TransportAssumption DEF AtMost, ClockTyped
      <4>3. now + AtMost(seconds, MaxRetryAfter) \in Nat
        BY <4>2
      <4> QED
        BY <4>1, <4>2, <4>3
    <3> QED
      BY <1>4, <3>1, <3>2 DEF RetryableStatus
  <2>2. PICK after \in Nat \cup {NoHeader}, until \in Nat :
          /\ Again(t, after, until)
          /\ \/ UNCHANGED notBefore
             \/ notBefore' = [notBefore EXCEPT ![call[t].batch] = until]
    BY <2>1
  <2>3. Typed'
    BY <1>2, <2>2, AgainTypes
  <2>4. notBefore' \in [Batch -> Nat]
    BY <2>2 DEF HistoryTyped
  <2>5. UNCHANGED <<used, promised, received, answered, gone>>
    BY <1>4 DEF RetryableStatus
  <2> QED
    BY <2>3, <2>4, <2>5 DEF HistoryTyped
<1>5. CASE NetworkError(t)
  <2>1. Typed'
    BY <1>2, <1>5, AgainTypes DEF NetworkError
  <2>2. /\ received' \subseteq received \cup {call[t].batch}
        /\ UNCHANGED <<used, promised, answered, gone, notBefore>>
    BY <1>5 DEF NetworkError
  <2> QED
    BY <1>2, <2>1, <2>2 DEF HistoryTyped
<1> QED
  BY <1>3, <1>4, <1>5

\* An acknowledgement or a pause starts.
LEMMA EndingTypes ==
  ASSUME Typed, StoreTyped, NEW t \in Threads, AcknowledgeStarts(t) \/ PauseStarts(t)
  PROVE  Typed' /\ StoreTyped'
<1>1. call[t] \in CallStates /\ InPlace(pc[t], call[t])
  BY DEF Typed, CallsTyped, CallsInPlace
<1>2. pc[t] \in Sending
  BY DEF AcknowledgeStarts, PauseStarts, Sending
<1>3. call[t].batch \in Batch /\ call[t].until \in Nat
  BY <1>1, <1>2 DEF InPlace, CallStates
<1>4. InPlace("acking", call[t]) /\ InPlace("pausing", call[t])
      /\ {"acking", "pausing"} \subseteq Places
  BY <1>1, <1>2 DEF InPlace, Places, Sending
<1>5. StoreTyped'
  BY <1>3, MutationTypes DEF AcknowledgeStarts, PauseStarts
<1>6. Typed'
  BY <1>4, MoveTypes DEF AcknowledgeStarts, PauseStarts, Typed
<1> QED
  BY <1>5, <1>6

\* What is remembered of batches, by the steps that are not answers.
LEMMA HistoryTypes ==
  ASSUME TransportTyped, NEW t \in Threads,
         \/ SendCalled(t) \/ PersistCalled(t) \/ MutationReturns(t) \/ MutationRaises(t)
  PROVE  HistoryTyped'
<1>1. call[t] \in CallStates /\ InPlace(pc[t], call[t])
  BY DEF TransportTyped, CallsTyped, CallsInPlace
<1>2. CASE SendCalled(t) \/ PersistCalled(t)
  <2>1. /\ \E b \in Batch : used' = used \cup {b}
        /\ UNCHANGED <<promised, received, answered, gone, notBefore>>
    BY <1>2 DEF SendCalled, PersistCalled
  <2> QED
    BY <2>1 DEF TransportTyped, HistoryTyped
<1>3. CASE MutationReturns(t)
  <2>1. call[t].batch \in Batch
    BY <1>1, <1>3 DEF MutationReturns, InPlace, Sending
  <2>2. /\ promised' \in {promised, promised \cup {call[t].batch}}
        /\ gone' \in {gone, gone \cup {call[t].batch}}
        /\ UNCHANGED <<used, received, answered, notBefore>>
    BY <1>3 DEF MutationReturns
  <2> QED
    BY <2>1, <2>2 DEF TransportTyped, HistoryTyped
<1>4. CASE MutationRaises(t)
  <2>1. /\ notBefore' \in {notBefore, [notBefore EXCEPT ![call[t].batch] = 0]}
        /\ UNCHANGED <<used, promised, received, answered, gone>>
    BY <1>4 DEF MutationRaises
  <2> QED
    BY <2>1 DEF TransportTyped, HistoryTyped
<1> QED
  BY <1>2, <1>3, <1>4

\* The file, the process and the clock.
LEMMA EnvironmentTypes ==
  ASSUME TransportTyped, Replace \/ Crash \/ Restart \/ Tick \/ UNCHANGED vars
  PROVE  TransportTyped'
<1>1. StoreTyped'
  <2>1. \/ ReplaceFile \/ ProcessDies \/ PowerFails \/ Opens \/ UNCHANGED storeVars
    BY DEF Replace, Crash, Restart, Tick, vars
  <2> QED
    BY <2>1, StoreTypes DEF TransportTyped
<1>2. CASE Crash
  <2>1. CallsTyped'
    BY <1>2, NoCallTypes DEF Crash, CallsTyped, Places
  <2>2. CallsInPlace'
    BY <1>2 DEF Crash, CallsInPlace, InPlace, Sending
  <2>3. \A b \in Batch : Written(b) \in Nat
    BY DEF Written, TransportTyped, HistoryTyped
  <2>4. HistoryTyped' /\ ClockTyped'
    BY <1>2, <2>3 DEF Crash, TransportTyped, HistoryTyped, ClockTyped
  <2> QED
    BY <1>1, <2>1, <2>2, <2>4 DEF TransportTyped
<1>3. CASE Replace \/ Restart \/ Tick \/ UNCHANGED vars
  <2>1. UNCHANGED <<pc, call, history>> /\ (now' = now \/ (now < MaxTime /\ now' = now + 1))
    BY <1>3 DEF Replace, Restart, Tick, vars
  <2>2. CallsTyped' /\ CallsInPlace'
    BY <2>1, NothingGoes DEF TransportTyped
  <2>3. HistoryTyped'
    BY <2>1 DEF history, TransportTyped, HistoryTyped
  <2>4. ClockTyped'
    BY <2>1, TransportAssumption DEF TransportTyped, ClockTyped
  <2> QED
    BY <1>1, <2>2, <2>3, <2>4 DEF TransportTyped
<1> QED
  BY <1>2, <1>3

\* Every step keeps the state typed.
LEMMA TransportTypeStep ==
  ASSUME TransportTyped, [Next]_vars
  PROVE  TransportTyped'
<1> USE DEF TransportTyped
<1>1. Typed
  BY DEF Typed
<1>2. ASSUME NEW t \in Threads, SendCalled(t) \/ RecoverCalled(t) \/ PersistCalled(t)
      PROVE  TransportTyped'
  <2>1. UNCHANGED <<storeVars, now>> /\ (RecoverCalled(t) => UNCHANGED history)
    BY <1>2 DEF SendCalled, RecoverCalled, PersistCalled
  <2>2. HistoryTyped'
    BY <1>2, <2>1, HistoryTypes DEF HistoryTyped, history
  <2> QED
    BY <1>1, <1>2, <2>1, <2>2, CalledTypes, StoreTypes DEF Typed, ClockTyped
<1>3. ASSUME NEW t \in Threads, MutationReturns(t) \/ MutationRaises(t)
      PROVE  TransportTyped'
  <2>1. now' = now
    BY <1>3 DEF MutationReturns, MutationRaises
  <2> QED
    BY <1>1, <1>3, <2>1, MutationDoneTypes, HistoryTypes DEF Typed, ClockTyped
<1>4. ASSUME NEW t \in Threads, FinalAnswer(t) \/ RetryableStatus(t) \/ NetworkError(t)
      PROVE  TransportTyped'
  <2>1. UNCHANGED <<storeVars, now>>
    BY <1>4 DEF FinalAnswer, RetryableStatus, NetworkError
  <2> QED
    BY <1>1, <1>4, <2>1, AnswerTypes, StoreTypes DEF Typed, ClockTyped
<1>5. ASSUME NEW t \in Threads,
             \/ PutStarts(t) \/ PutRefused(t) \/ PersistConfirms(t)
             \/ AcknowledgeStarts(t) \/ PauseStarts(t)
      PROVE  TransportTyped'
  <2>1. UNCHANGED <<now, history>>
    BY <1>5 DEF PutStarts, PutRefused, PersistConfirms, AcknowledgeStarts, PauseStarts
  <2>2. Typed' /\ StoreTyped'
    BY <1>1, <1>5, PutTypes, EndingTypes
  <2> QED
    BY <2>1, <2>2 DEF Typed, ClockTyped, HistoryTyped, history
<1>6. ASSUME NEW t \in Threads,
             \/ LockTaken(t) \/ LockTimesOut(t) \/ RecoverDone(t) \/ NextRecord(t)
             \/ PauseOver(t) \/ RetryWaits(t) \/ PostStarts(t) \/ PostTooLate(t)
      PROVE  TransportTyped'
  <2>1. UNCHANGED <<storeVars, now, history>>
    BY <1>6
    DEF LockTaken, LockTimesOut, RecoverDone, NextRecord, PauseOver, RetryWaits,
        PostStarts, PostTooLate
  <2>2. Typed'
    BY <1>1, <1>6, LockTypes, ReplayTypes, RetryTypes, PostTypes
  <2> QED
    BY <2>1, <2>2, StoreTypes DEF Typed, ClockTyped, HistoryTyped, history
<1>7. CASE Replace \/ Crash \/ Restart \/ Tick \/ UNCHANGED vars
  BY <1>7, EnvironmentTypes
<1> QED
  BY <1>2, <1>3, <1>4, <1>5, <1>6, <1>7 DEF Next, Step

\* The first state is typed.
LEMMA TransportTypeInit == Init => TransportTyped
<1> SUFFICES ASSUME Init PROVE TransportTyped
  OBVIOUS
<1>1. <<>> \in Seq(Records)
  OBVIOUS
<1>2. StoreTyped
  BY <1>1 DEF Init, StoreInit, StoreTyped, NoWrite
<1>3. CallsTyped /\ CallsInPlace
  BY NoCallTypes DEF Init, CallsTyped, CallsInPlace, InPlace, Places, Sending
<1>4. HistoryTyped /\ ClockTyped
  BY TransportAssumption DEF Init, HistoryTyped, ClockTyped
<1> QED
  BY <1>2, <1>3, <1>4 DEF TransportTyped

\* Every reachable state is typed, whatever the threads, batches and limits: in
\* particular no call makes more attempts than max_retries + 1 (transport.py:195).
THEOREM TransportTypeCorrect == Spec => []TypeOK
<1>1. TransportTyped /\ [Next]_vars => TransportTyped'
  BY TransportTypeStep
<1>2. TransportTyped => TypeOK
  BY DEF TransportTyped, StoreTyped, CallsTyped, HistoryTyped, ClockTyped, TypeOK
<1> QED
  BY <1>1, <1>2, TransportTypeInit, PTL DEF Spec

-----------------------------------------------------------------------------
(* The log keeps its promises: once put() has returned, a batch is on disk *)
(* until the server has answered for it.                                   *)

\* A thread inside put, acknowledge or pause.
Busy == {"putting", "acking", "pausing"}

\* The store's lock: one thread at a time is inside a mutation.
OneMutation ==
  /\ \A t \in Threads : pc[t] \in Busy => write.stage # "none"
  /\ \A t, u \in Threads : pc[t] \in Busy /\ pc[u] \in Busy => t = u

\* What is put is there, and only what was answered for is acknowledged.
PutIsThere == \A t \in Threads : pc[t] = "putting" => call[t].batch \in Ids(records)
AnsweredFirst == \A t \in Threads : pc[t] \in {"ack", "acking"} => call[t].batch \in answered

\* A promised batch is in memory too, so that the next write keeps it.
MemoryKeepsPromises == open => \A b \in promised \ answered : b \in Ids(records)

PromiseInv ==
  OneMutation /\ PutIsThere /\ AnsweredFirst /\ MemoryKeepsPromises /\ LogKeepsPromises

-----------------------------------------------------------------------------
(* What the mutations do to the batches in the log.                        *)

\* The batch that is put is there, with every other.
LEMMA PutKeeps ==
  ASSUME StoreTyped, NEW b, PutBegins(b)
  PROVE  b \in Ids(records') /\ Ids(records) \subseteq Ids(records')
<1>1. records' = Append(records, Record(b, 0)) /\ Len(records) \in Nat
      /\ DOMAIN records = 1 .. Len(records)
  BY DEF PutBegins, Mutates, StoreTyped
<1>2. /\ DOMAIN records' = 1 .. Len(records) + 1
      /\ records'[Len(records) + 1] = Record(b, 0)
      /\ \A i \in DOMAIN records : records'[i] = records[i]
  BY <1>1 DEF StoreTyped
<1>3. Len(records) + 1 \in DOMAIN records' /\ DOMAIN records \subseteq DOMAIN records'
  BY <1>1, <1>2
<1>4. Record(b, 0).batch = b
  BY DEF Record
<1> QED
  BY <1>2, <1>3, <1>4 DEF Ids

\* Everything but the acknowledged batch stays.
LEMMA AcknowledgeKeeps ==
  ASSUME StoreTyped, NEW b, AcknowledgeBegins(b)
  PROVE  Ids(records) \ {b} \subseteq Ids(records')
<1>1. PICK i \in DOMAIN records : records[i].batch = b /\ records' = RemoveAt(records, i)
  BY DEF AcknowledgeBegins, Mutates
<1>2. ASSUME NEW j \in DOMAIN records, records[j].batch # b
      PROVE  records[j].batch \in Ids(records')
  <2>1. \E k \in DOMAIN RemoveAt(records, i) : RemoveAt(records, i)[k] = records[j]
    BY <1>1, <1>2, RemoveAtKeeps DEF StoreTyped
  <2> QED
    BY <1>1, <2>1 DEF Ids
<1> QED
  BY <1>2 DEF Ids

\* A pause keeps every batch.
LEMMA PauseKeeps ==
  ASSUME NEW b, NEW until, PauseBegins(b, until)
  PROVE  Ids(records) \subseteq Ids(records')
<1>1. records' = [i \in DOMAIN records |->
                    IF records[i].batch = b THEN Record(b, until) ELSE records[i]]
  BY DEF PauseBegins, Mutates
<1>2. \A i \in DOMAIN records : i \in DOMAIN records' /\ records'[i].batch = records[i].batch
  BY <1>1 DEF Record
<1> QED
  BY <1>2 DEF Ids

\* A mutation that begins keeps what is promised, if what it removes was answered for.
LEMMA BeginningKeeps ==
  ASSUME PromiseInv, MemoryMatchesFile, NEW t \in Threads, CallsTyped,
         NEW place \in Busy, NEW contents, Mutates(contents), Move(t, place), UNCHANGED call,
         UNCHANGED <<promised, answered>>,
         place = "putting" => call[t].batch \in Ids(records'),
         place = "acking" => pc[t] = "ack",
         \A b \in Ids(records) : b \in answered \/ b \in Ids(records')
  PROVE  PromiseInv'
<1>1. /\ open /\ write = NoWrite /\ write'.stage = "begun"
      /\ UNCHANGED <<open, file, survivors>>
  BY DEF Mutates, Unlocked
<1>2. \A u \in Threads : pc[u] \notin Busy
  BY <1>1 DEF PromiseInv, OneMutation, NoWrite
<1>3. pc'[t] = place /\ \A u \in Threads \ {t} : pc'[u] = pc[u]
  BY DEF Move, CallsTyped
<1>4. OneMutation'
  BY <1>1, <1>2, <1>3 DEF OneMutation
<1>5. PutIsThere'
  BY <1>2, <1>3 DEF PutIsThere, Busy
<1>6. AnsweredFirst'
  BY <1>3 DEF PromiseInv, AnsweredFirst, Busy
<1>7. MemoryKeepsPromises'
  BY <1>1 DEF PromiseInv, MemoryKeepsPromises
<1>8. LogKeepsPromises'
  BY <1>1 DEF PromiseInv, LogKeepsPromises, Kept, Ids
<1> QED
  BY <1>4, <1>5, <1>6, <1>7, <1>8 DEF PromiseInv

-----------------------------------------------------------------------------
(* The steps.                                                              *)

\* A put, an acknowledgement or a pause starts.
LEMMA StartsKeep ==
  ASSUME PromiseInv, MemoryMatchesFile, TransportTyped, NEW t \in Threads,
         PutStarts(t) \/ AcknowledgeStarts(t) \/ PauseStarts(t)
  PROVE  PromiseInv'
<1>1. StoreTyped /\ CallsTyped
  BY DEF TransportTyped
<1>2. CASE PutStarts(t)
  <2>1. /\ PutBegins(call[t].batch) /\ Move(t, "putting")
        /\ UNCHANGED <<call, promised, answered>>
    BY <1>2 DEF PutStarts, history
  <2>2. \E contents : Mutates(contents)
    BY <2>1 DEF PutBegins
  <2>3. call[t].batch \in Ids(records') /\ Ids(records) \subseteq Ids(records')
    BY <1>1, <2>1, PutKeeps
  <2> QED
    BY <1>1, <2>1, <2>2, <2>3, BeginningKeeps DEF Busy
<1>3. CASE AcknowledgeStarts(t)
  <2>1. /\ pc[t] = "ack" /\ AcknowledgeBegins(call[t].batch) /\ Move(t, "acking")
        /\ UNCHANGED <<call, promised, answered>>
    BY <1>3 DEF AcknowledgeStarts, history
  <2>2. \E contents : Mutates(contents)
    BY <2>1 DEF AcknowledgeBegins
  <2>3. Ids(records) \ {call[t].batch} \subseteq Ids(records')
    BY <1>1, <2>1, AcknowledgeKeeps
  <2>4. call[t].batch \in answered
    BY <2>1 DEF PromiseInv, AnsweredFirst
  <2>5. \A b \in Ids(records) : b \in answered \/ b \in Ids(records')
    BY <2>3, <2>4
  <2> QED
    BY <1>1, <2>1, <2>2, <2>5, BeginningKeeps DEF Busy
<1>4. CASE PauseStarts(t)
  <2>1. /\ PauseBegins(call[t].batch, call[t].until) /\ Move(t, "pausing")
        /\ UNCHANGED <<call, promised, answered>>
    BY <1>4 DEF PauseStarts, history
  <2>2. \E contents : Mutates(contents)
    BY <2>1 DEF PauseBegins
  <2>3. Ids(records) \subseteq Ids(records')
    BY <2>1, PauseKeeps
  <2> QED
    BY <1>1, <2>1, <2>2, <2>3, BeginningKeeps DEF Busy
<1> QED
  BY <1>2, <1>3, <1>4

\* A thread leaves a place, and is in no mutation afterwards.
Leaves(t) ==
  /\ pc'[t] \notin Busy
  /\ pc'[t] = "ack" => call'[t].batch \in answered'
  /\ \A u \in Threads \ {t} : pc'[u] = pc[u] /\ call'[u] = call[u]

\* A thread that goes elsewhere leaves.
LEMMA GoesLeaves ==
  ASSUME CallsTyped, NEW t \in Threads, NEW place, NEW c, Goes(t, place, c),
         place \notin Busy, place = "ack" => c.batch \in answered'
  PROVE  Leaves(t)
  BY DEF CallsTyped, Goes, Move, Leaves

\* So does one whose call returns.
LEMMA ReturnsLeaves ==
  ASSUME CallsTyped, NEW t \in Threads, NEW contents,
         (\E outcome : Returns(t, outcome)) \/ FailsWith(t, contents)
  PROVE  Leaves(t)
<1>1. \E c : Goes(t, "idle", c)
  BY DEF Returns, FailsWith
<1> QED
  BY <1>1, GoesLeaves DEF Busy

\* A mutation of the store returns or raises.
LEMMA MutationDoneKeeps ==
  ASSUME PromiseInv, MemoryMatchesFile, TransportTyped, NEW t \in Threads,
         MutationReturns(t) \/ MutationRaises(t)
  PROVE  PromiseInv'
<1>1. CallsTyped /\ pc[t] \in Busy
  BY DEF TransportTyped, MutationReturns, MutationRaises, Busy
<1>2. \A u \in Threads \ {t} : pc[u] \notin Busy
  BY <1>1 DEF PromiseInv, OneMutation
<1>3. Leaves(t)
  <2>1. CASE MutationRaises(t)
    BY <1>1, <2>1, ReturnsLeaves DEF MutationRaises
  <2>2. CASE MutationReturns(t) /\ pc[t] = "putting"
    BY <1>1, <2>2 DEF MutationReturns, Move, CallsTyped, Leaves, Busy
  <2>3. CASE MutationReturns(t) /\ pc[t] = "acking"
    <3>1. \/ Returns(t, "success") \/ Returns(t, "rejected")
          \/ \E c : Goes(t, "next", c)
      BY <2>3 DEF MutationReturns
    <3> QED
      BY <1>1, <3>1, ReturnsLeaves, GoesLeaves DEF Busy
  <2>4. CASE MutationReturns(t) /\ pc[t] = "pausing"
    <3>1. FailsWith(t, records)
      BY <2>4 DEF MutationReturns
    <3> QED
      BY <1>1, <3>1, ReturnsLeaves
  <2> QED
    BY <1>1, <2>1, <2>2, <2>3, <2>4 DEF Busy
<1>4. \A u \in Threads : pc'[u] \notin Busy
  BY <1>2, <1>3 DEF Leaves
<1>5. answered' = answered
  BY DEF MutationReturns, MutationRaises
<1>6. OneMutation' /\ PutIsThere'
  BY <1>4 DEF OneMutation, PutIsThere, Busy
<1>7. AnsweredFirst'
  BY <1>3, <1>4, <1>5 DEF Leaves, PromiseInv, AnsweredFirst, Busy
<1>8. CASE MutationRaises(t)
  <2>1. records' = file /\ UNCHANGED <<open, file, survivors, promised>>
    BY <1>8 DEF MutationRaises, WriteFails, MemoryMatchesFile
  <2>2. \A b \in promised \ answered : b \in Ids(file)
    BY DEF PromiseInv, LogKeepsPromises, Kept, MemoryMatchesFile
  <2>3. MemoryKeepsPromises'
    BY <1>5, <2>1, <2>2 DEF MemoryKeepsPromises, Ids
  <2>4. LogKeepsPromises'
    BY <1>5, <2>1 DEF PromiseInv, LogKeepsPromises, Kept, Ids
  <2> QED
    BY <1>6, <1>7, <2>3, <2>4 DEF PromiseInv
<1>9. CASE MutationReturns(t)
  <2>1. /\ open /\ records = file /\ UNCHANGED <<open, records, file>>
        /\ survivors' = IF DirectorySync THEN {file} ELSE survivors
    BY <1>9 DEF MutationReturns, WriteReturns, MemoryMatchesFile
  <2>2. /\ promised' \subseteq promised \cup {call[t].batch}
        /\ pc[t] # "putting" => promised' = promised
    BY <1>9 DEF MutationReturns
  <2>3. \A b \in promised' \ answered' : b \in Ids(file)
    <3>1. \A b \in promised \ answered : b \in Ids(file)
      BY <2>1 DEF PromiseInv, MemoryKeepsPromises
    <3>2. pc[t] = "putting" => call[t].batch \in Ids(file)
      BY <2>1 DEF PromiseInv, PutIsThere
    <3> QED
      BY <1>5, <2>2, <3>1, <3>2
  <2>4. \A contents \in Kept' : contents = file
    BY <2>1 DEF Kept
  <2>5. MemoryKeepsPromises' /\ LogKeepsPromises'
    BY <2>1, <2>3, <2>4 DEF MemoryKeepsPromises, LogKeepsPromises, Ids
  <2> QED
    BY <1>6, <1>7, <2>5 DEF PromiseInv
<1> QED
  BY <1>8, <1>9

\* A step of a thread that leaves the store alone.
LEMMA QuietKeeps ==
  ASSUME PromiseInv, NEW t \in Threads, Leaves(t), UNCHANGED <<storeVars, promised>>,
         answered \subseteq answered'
  PROVE  PromiseInv'
<1>1. UNCHANGED <<open, records, file, survivors, write>>
  BY DEF storeVars
<1>2. OneMutation'
  <2>1. \A u \in Threads : pc'[u] \in Busy => u # t /\ pc'[u] = pc[u]
    BY DEF Leaves
  <2> QED
    BY <1>1, <2>1 DEF PromiseInv, OneMutation
<1>3. PutIsThere'
  BY <1>1 DEF PromiseInv, PutIsThere, Leaves, Busy, Ids
<1>4. AnsweredFirst'
  BY DEF PromiseInv, AnsweredFirst, Leaves, Busy
<1>5. MemoryKeepsPromises' /\ LogKeepsPromises'
  BY <1>1 DEF PromiseInv, MemoryKeepsPromises, LogKeepsPromises, Kept, Ids
<1> QED
  BY <1>2, <1>3, <1>4, <1>5 DEF PromiseInv

\* Calls, the lock, the loops, requests and their answers.
LEMMA ThreadsKeep ==
  ASSUME PromiseInv, CallsTyped, NEW t \in Threads,
         \/ SendCalled(t) \/ RecoverCalled(t) \/ PersistCalled(t)
         \/ LockTaken(t) \/ LockTimesOut(t) \/ PutRefused(t) \/ PersistConfirms(t)
         \/ RecoverDone(t) \/ NextRecord(t) \/ PauseOver(t)
         \/ RetryWaits(t) \/ PostStarts(t) \/ PostTooLate(t)
         \/ FinalAnswer(t) \/ RetryableStatus(t) \/ NetworkError(t)
  PROVE  PromiseInv'
<1> DEFINE Quiet == \E place \in {"lock", "put", "next", "paused", "attempt", "backoff",
                                  "post", "giveup"} : \E c : Goes(t, place, c)
           Over == (\E outcome : Returns(t, outcome)) \/ \E contents : FailsWith(t, contents)
<1>1. UNCHANGED <<storeVars, promised>> /\ answered \subseteq answered'
  BY DEF SendCalled, RecoverCalled, PersistCalled, LockTaken, LockTimesOut, PutRefused,
         PersistConfirms, RecoverDone, NextRecord, PauseOver, RetryWaits, PostStarts,
         PostTooLate, FinalAnswer, RetryableStatus, NetworkError, history
<1>2. CASE SendCalled(t) \/ RecoverCalled(t) \/ PersistCalled(t)
  <2>1. Quiet
    BY <1>2 DEF SendCalled, RecoverCalled, PersistCalled
  <2> QED
    BY <1>1, <2>1, GoesLeaves, QuietKeeps DEF Busy
<1>3. CASE LockTaken(t) \/ LockTimesOut(t)
  <2>1. Quiet \/ Over
    BY <1>3 DEF LockTaken, LockTimesOut
  <2> QED
    BY <1>1, <2>1, GoesLeaves, ReturnsLeaves, QuietKeeps DEF Busy
<1>4. CASE PutRefused(t) \/ PersistConfirms(t) \/ RecoverDone(t)
  <2>1. Over
    BY <1>4 DEF PutRefused, PersistConfirms, RecoverDone
  <2> QED
    BY <1>1, <2>1, ReturnsLeaves, QuietKeeps
<1>5. CASE NextRecord(t) \/ RetryWaits(t) \/ PostStarts(t)
  <2>1. Quiet \/ Over
    BY <1>5 DEF NextRecord, RetryWaits, PostStarts
  <2> QED
    BY <1>1, <2>1, GoesLeaves, ReturnsLeaves, QuietKeeps DEF Busy
<1>6. CASE PauseOver(t) \/ PostTooLate(t)
  <2>1. (Move(t, "attempt") \/ Move(t, "giveup")) /\ UNCHANGED call
    BY <1>6 DEF PauseOver, PostTooLate
  <2>2. Leaves(t)
    BY <2>1 DEF CallsTyped, Move, Leaves, Busy
  <2> QED
    BY <1>1, <2>2, QuietKeeps
<1>7. CASE FinalAnswer(t)
  <2>1. PICK success \in BOOLEAN : Goes(t, "ack", [call[t] EXCEPT !.success = success])
    BY <1>7 DEF FinalAnswer
  <2> DEFINE c == [call[t] EXCEPT !.success = success]
  <2>2. c.batch \in answered'
    BY <1>7 DEF FinalAnswer, CallsTyped, CallStates
  <2>3. Goes(t, "ack", c) /\ "ack" \notin Busy
    BY <2>1 DEF Busy
  <2> HIDE DEF c
  <2>4. Leaves(t)
    BY <2>2, <2>3, GoesLeaves
  <2> QED
    BY <1>1, <2>4, QuietKeeps
<1>8. CASE RetryableStatus(t) \/ NetworkError(t)
  <2>1. Quiet
    BY <1>8 DEF RetryableStatus, NetworkError, Again
  <2> QED
    BY <1>1, <2>1, GoesLeaves, QuietKeeps DEF Busy
<1> QED
  BY <1>2, <1>3, <1>4, <1>5, <1>6, <1>7, <1>8

\* The file is replaced; the process or the machine stops; a client is made again.
LEMMA EnvironmentKeeps ==
  ASSUME PowerMayFail => DirectorySync, PromiseInv, MemoryMatchesFile, StoreTyped,
         Replace \/ Crash \/ Restart \/ Tick \/ UNCHANGED vars
  PROVE  PromiseInv'
<1>1. CASE Replace
  <2>1. /\ open /\ file' = records /\ survivors' = survivors \cup {records}
        /\ write'.stage # "none"
        /\ UNCHANGED <<open, records, pc, call, promised, answered>>
    BY <1>1 DEF Replace, ReplaceFile, MemoryMatchesFile, history
  <2>2. OneMutation' /\ PutIsThere' /\ AnsweredFirst'
    BY <2>1 DEF PromiseInv, OneMutation, PutIsThere, AnsweredFirst, Ids
  <2>3. MemoryKeepsPromises' /\ LogKeepsPromises'
    BY <2>1 DEF PromiseInv, MemoryKeepsPromises, LogKeepsPromises, Kept, Ids
  <2> QED
    BY <2>2, <2>3 DEF PromiseInv
<1>2. CASE Crash
  <2>1. open' = FALSE /\ pc' = [t \in Threads |-> "idle"]
        /\ UNCHANGED <<promised, answered>>
    BY <1>2 DEF Crash, ProcessDies, PowerFails, Stops
  <2>2. OneMutation' /\ PutIsThere' /\ AnsweredFirst' /\ MemoryKeepsPromises'
    BY <2>1 DEF OneMutation, PutIsThere, AnsweredFirst, MemoryKeepsPromises, Busy
  <2>3. Kept' \subseteq Kept
    <3>1. CASE ProcessDies
      BY <3>1 DEF ProcessDies, Kept
    <3>2. CASE PowerFails
      BY <3>2 DEF PowerFails, Kept
    <3> QED
      BY <1>2, <3>1, <3>2 DEF Crash
  <2>4. LogKeepsPromises'
    BY <2>1, <2>3 DEF PromiseInv, LogKeepsPromises, Ids
  <2> QED
    BY <2>2, <2>4 DEF PromiseInv
<1>3. CASE Restart
  <2>1. records' = file /\ ~open
        /\ UNCHANGED <<file, survivors, write, pc, call, promised, answered>>
    BY <1>3 DEF Restart, Opens, history
  <2>2. OneMutation' /\ AnsweredFirst'
    BY <2>1 DEF PromiseInv, OneMutation, AnsweredFirst
  <2>3. PutIsThere'
    <3>1. write.stage = "none"
      BY <2>1 DEF StoreTyped, MemoryMatchesFile
    <3> QED
      BY <2>1, <3>1 DEF PromiseInv, OneMutation, PutIsThere, Busy
  <2>4. MemoryKeepsPromises' /\ LogKeepsPromises'
    BY <2>1 DEF PromiseInv, MemoryKeepsPromises, LogKeepsPromises, Kept, Ids
  <2> QED
    BY <2>2, <2>3, <2>4 DEF PromiseInv
<1>4. CASE Tick \/ UNCHANGED vars
  <2>1. UNCHANGED <<open, records, file, survivors, write, pc, call, promised, answered>>
    BY <1>4 DEF Tick, vars, storeVars, history
  <2> QED
    BY <2>1 DEF PromiseInv, OneMutation, PutIsThere, AnsweredFirst, MemoryKeepsPromises,
                LogKeepsPromises, Kept, Ids
<1> QED
  BY <1>1, <1>2, <1>3, <1>4

\* Every step keeps the promises.
LEMMA PromiseStep ==
  ASSUME PowerMayFail => DirectorySync, PromiseInv, MemoryMatchesFile, TransportTyped,
         [Next]_vars
  PROVE  PromiseInv'
<1>1. CallsTyped
  BY DEF TransportTyped
<1>2. ASSUME NEW t \in Threads, PutStarts(t) \/ AcknowledgeStarts(t) \/ PauseStarts(t)
      PROVE  PromiseInv'
  BY <1>2, StartsKeep
<1>3. ASSUME NEW t \in Threads, MutationReturns(t) \/ MutationRaises(t)
      PROVE  PromiseInv'
  BY <1>3, MutationDoneKeeps
<1>4. CASE Replace \/ Crash \/ Restart \/ Tick \/ UNCHANGED vars
  BY <1>4, EnvironmentKeeps DEF TransportTyped
<1> QED
  BY <1>1, <1>2, <1>3, <1>4, ThreadsKeep DEF Next, Step

\* Once put() has returned, a batch is on disk until the server has answered for
\* it (persistence.py:104-123, 227-258): whatever the threads, batches, limits and
\* times, and although writes fail and processes crash; and, where directories can
\* be synced, although the machine stops.
THEOREM PromisesKept ==
  ASSUME PowerMayFail => DirectorySync
  PROVE  Spec => []LogKeepsPromises
<1>1. Init => PromiseInv
  BY DEF Init, StoreInit, NoWrite, PromiseInv, OneMutation, PutIsThere, AnsweredFirst,
         MemoryKeepsPromises, LogKeepsPromises, Busy
<1>2. Init => MemoryMatchesFile
  BY StoreInitMatches DEF Init
<1> DEFINE Inv == TransportTyped /\ MemoryMatchesFile /\ PromiseInv
<1>3. Init => Inv
  BY <1>1, <1>2, TransportTypeInit
<1>4. Inv /\ [Next]_vars => Inv'
  BY TransportTypeStep, TransportStep, StoreStepMatches, PromiseStep
<1>5. Inv => LogKeepsPromises
  BY DEF PromiseInv
<1> HIDE DEF Inv
<1> QED
  BY <1>3, <1>4, <1>5, PTL DEF Spec
=============================================================================
