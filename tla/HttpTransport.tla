--------------------------- MODULE HttpTransport ---------------------------
(***************************************************************************)
(* HttpTransport (src/alitycs/transport.py) over the store of BatchStore:  *)
(* send, persist and recover by several threads, with attempts, backoff,   *)
(* Retry-After, pauses that outlive the process, and deadlines.            *)
(*                                                                         *)
(* now is the clock, wall and monotonic in one.  Only waiting takes time:  *)
(* the clock stands still while some thread can go on, so that what the    *)
(* deadlines bound is the sum of all waits of a call.                      *)
(*                                                                         *)
(* The endpoint (external) accepts, refuses, answers a retryable status    *)
(* with or without Retry-After, or does not answer in time, in which case  *)
(* it may have accepted the batch nevertheless.                            *)
(***************************************************************************)
EXTENDS BatchStore

CONSTANTS
  Threads,         \* the threads that use the transport
  MaxRetries,      \* max_retries
  RequestTimeout,  \* request_timeout
  BackoffBase,     \* retry_backoff_base
  MaxBackoff,      \* _MAX_BACKOFF_SECONDS
  MaxRetryAfter,   \* _MAX_RETRY_AFTER_SECONDS
  RetryAfters,     \* what servers put into Retry-After
  Timeouts,        \* the timeouts callers give
  MaxTime,         \* bound of the clock
  Calls            \* the operations the callers use

Never == MaxTime + MaxRetryAfter + MaxBackoff + RequestTimeout + 1
NoHeader == -1

ASSUME TransportAssumption ==
  /\ {MaxRetries, BackoffBase, MaxBackoff, MaxRetryAfter, MaxTime} \subseteq Nat
  /\ RequestTimeout \in Nat \ {0}
  /\ RetryAfters \subseteq Nat /\ Timeouts \subseteq Nat
  /\ 0 .. MaxTime + MaxRetryAfter \subseteq Times
  /\ Calls \subseteq {"send", "send_by", "recover", "recover_by", "persist"}

VARIABLES
  now,        \* the clock
  pc,         \* where each thread is
  call,       \* the arguments and locals of each thread's call
  used,       \* history: the batches given to send or persist
  promised,   \* history: the batches put() has returned for
  received,   \* history: the batches the server has accepted
  answered,   \* history: the batches the server has accepted or refused audibly
  gone,       \* history: the batches acknowledge() has returned for
  notBefore   \* history: when the server wants to see each batch again

history == <<used, promised, received, answered, gone, notBefore>>
vars == <<storeVars, now, pc, call, history>>

Places ==
  {"idle", "lock", "put", "putting", "confirm", "next", "paused", "attempt",
   "backoff", "post", "ack", "acking", "giveup", "pausing"}

\* after is retry_after, until is retry_after_until, todo the rest of a replay.
NoCall == [op |-> "none", batch |-> "none", deadline |-> Never, attempt |-> 0,
           wake |-> 0, after |-> NoHeader, until |-> 0, todo |-> <<>>,
           success |-> FALSE, outcome |-> "none"]

AtMost(n, limit) == IF n < limit THEN n ELSE limit

\* The delay before an attempt: doubling, capped, unless the server has said.
Backoff(attempt) == AtMost(BackoffBase * 2 ^ (attempt - 1), MaxBackoff)
IgnoresRetryAfter(t) == Backoff(call[t].attempt) \* mutant
Delay(t) == IF call[t].after # NoHeader THEN call[t].after ELSE Backoff(call[t].attempt)

NeverExceeds(t, delay) == FALSE \* mutant
DelayExceedsDeadline(t, delay) == now + delay > call[t].deadline

\* _delivery_lock is held by send() and recover() once they have it.
LockFree ==
  \A t \in Threads : call[t].op \in {"send", "recover"} => pc[t] \in {"idle", "lock"}

Move(t, place) == pc' = [pc EXCEPT ![t] = place]
Goes(t, place, c) == Move(t, place) /\ call' = [call EXCEPT ![t] = c]

\* The call is over: only what it was about and its outcome remain.
Returns(t, outcome) ==
  Goes(t, "idle",
       [NoCall EXCEPT !.op = call[t].op, !.batch = call[t].batch, !.outcome = outcome])

PassesOver(t, contents) == \* mutant
  IF call[t].op = "recover" THEN Goes(t, "next", [call[t] EXCEPT !.todo = Tail(@)])
  ELSE Returns(t, "retained")

\* The call fails: a batch that the store contains is retained.
FailsWith(t, contents) ==
  Returns(t, IF call[t].op # "send" THEN "false"
             ELSE IF call[t].batch \in Ids(contents) THEN "retained" ELSE "failed")

Init ==
  /\ StoreInit
  /\ now = 0
  /\ pc = [t \in Threads |-> "idle"]
  /\ call = [t \in Threads |-> NoCall]
  /\ used = {} /\ promised = {} /\ received = {} /\ answered = {} /\ gone = {}
  /\ notBefore = [b \in Batch |-> 0]

-----------------------------------------------------------------------------
(* Calls.                                                                  *)

CanCall(t, operation) == open /\ pc[t] = "idle" /\ operation \in Calls

Deadlines(bounded) == IF bounded THEN {now + d : d \in Timeouts} ELSE {Never}

SendCalled(t) ==
  /\ \E bounded \in BOOLEAN, b \in Batch \ used :
       /\ CanCall(t, IF bounded THEN "send_by" ELSE "send")
       /\ \E d \in Deadlines(bounded) :
            Goes(t, "lock", [NoCall EXCEPT !.op = "send", !.batch = b, !.deadline = d])
       /\ used' = used \cup {b}
  /\ UNCHANGED <<storeVars, now, promised, received, answered, gone, notBefore>>

RecoverCalled(t) ==
  /\ \E bounded \in BOOLEAN :
       /\ CanCall(t, IF bounded THEN "recover_by" ELSE "recover")
       /\ \E d \in Deadlines(bounded) :
            Goes(t, "lock", [NoCall EXCEPT !.op = "recover", !.deadline = d])
  /\ UNCHANGED <<storeVars, now, history>>

PersistCalled(t) ==
  /\ CanCall(t, "persist")
  /\ \E b \in Batch \ used :
       /\ Goes(t, "put", [NoCall EXCEPT !.op = "persist", !.batch = b])
       /\ used' = used \cup {b}
  /\ UNCHANGED <<storeVars, now, promised, received, answered, gone, notBefore>>

\* _acquire_delivery_lock; recover() goes on to take its snapshot.
LockTaken(t) ==
  /\ pc[t] = "lock" /\ LockFree
  /\ now < call[t].deadline
  /\ IF call[t].op = "send" THEN Goes(t, "put", call[t])
     ELSE Unlocked /\ Goes(t, "next", [call[t] EXCEPT !.todo = records])
  /\ UNCHANGED <<storeVars, now, history>>

LockTimesOut(t) ==
  /\ pc[t] = "lock"
  /\ now >= call[t].deadline
  /\ Returns(t, IF call[t].op = "send" THEN "failed" ELSE "false")
  /\ UNCHANGED <<storeVars, now, history>>

-----------------------------------------------------------------------------
(* put, of send and persist.                                               *)

PutStarts(t) ==
  /\ pc[t] = "put"
  /\ PutBegins(call[t].batch)
  /\ Move(t, "putting")
  /\ UNCHANGED <<now, call, history>>

PutRefused(t) ==
  /\ pc[t] = "put" /\ Unlocked
  /\ ~Fits(call[t].batch)
  /\ FailsWith(t, records)
  /\ UNCHANGED <<storeVars, now, history>>

\* Where a thread goes when its mutation of the store has returned.
MutationReturns(t) ==
  /\ pc[t] \in {"putting", "acking", "pausing"}
  /\ WriteReturns
  /\ CASE pc[t] = "putting" ->
            /\ Move(t, IF call[t].op = "send" THEN "attempt" ELSE "confirm")
            /\ promised' = promised \cup {call[t].batch}
            /\ UNCHANGED <<call, gone>>
       [] pc[t] = "acking" ->
            /\ IF call[t].op = "send"
                 THEN Returns(t, IF call[t].success THEN "success" ELSE "rejected")
                 ELSE Goes(t, "next", [call[t] EXCEPT !.todo = Tail(@)])
            /\ gone' = gone \cup {call[t].batch}
            /\ UNCHANGED promised
       [] pc[t] = "pausing" -> FailsWith(t, records) /\ UNCHANGED <<promised, gone>>
  /\ UNCHANGED <<now, used, received, answered, notBefore>>

\* The exception of a write that raises ends the whole call.  A pause that
\* could not be written is forgotten.
MutationRaises(t) ==
  /\ pc[t] \in {"putting", "acking", "pausing"}
  /\ WriteFails
  /\ FailsWith(t, records')
  /\ notBefore' = IF pc[t] = "pausing" THEN [notBefore EXCEPT ![call[t].batch] = 0]
                  ELSE notBefore
  /\ UNCHANGED <<now, used, promised, received, answered, gone>>

\* persist() asks the store whether the batch is there.
PersistConfirms(t) ==
  /\ pc[t] = "confirm" /\ Unlocked
  /\ Returns(t, IF call[t].batch \in Ids(records) THEN "true" ELSE "false")
  /\ UNCHANGED <<storeVars, now, history>>

-----------------------------------------------------------------------------
(* recover: the records of the snapshot, one after the other.              *)

RecoverDone(t) ==
  /\ pc[t] = "next" /\ call[t].todo = <<>>
  /\ Returns(t, "true")
  /\ UNCHANGED <<storeVars, now, history>>

Remaining(t) == Head(call[t].todo).until - now

NextRecord(t) ==
  /\ pc[t] = "next" /\ call[t].todo # <<>>
  /\ LET record == Head(call[t].todo)
         c == [call[t] EXCEPT !.batch = record.batch, !.attempt = 0,
                              !.after = NoHeader, !.until = 0, !.wake = record.until]
     IN IF Remaining(t) <= 0 THEN Goes(t, "attempt", c)
        ELSE IF DelayExceedsDeadline(t, Remaining(t)) THEN Returns(t, "false")
        ELSE Goes(t, "paused", c)
  /\ UNCHANGED <<storeVars, now, history>>

PauseOver(t) ==
  /\ pc[t] = "paused"
  /\ now >= call[t].wake
  /\ Move(t, "attempt")
  /\ UNCHANGED <<storeVars, now, call, history>>

-----------------------------------------------------------------------------
(* _send_record: attempts until a final answer.                            *)

OneMoreAttempt(t) == call[t].attempt > MaxRetries + 1 \* mutant
Exhausted(t) == call[t].attempt > MaxRetries

\* The loop ends without an answer, or sleeps before another attempt.
RetryWaits(t) ==
  /\ pc[t] = "attempt" /\ call[t].attempt > 0
  /\ IF Exhausted(t) \/ DelayExceedsDeadline(t, Delay(t))
       THEN Goes(t, "giveup", call[t])
       ELSE Goes(t, "backoff", [call[t] EXCEPT !.wake = now + Delay(t), !.after = NoHeader])
  /\ UNCHANGED <<storeVars, now, history>>

AttemptDue(t) ==
  \/ pc[t] = "attempt" /\ call[t].attempt = 0
  \/ pc[t] = "backoff" /\ now >= call[t].wake

WholeTimeout(t) == RequestTimeout \* mutant
PostTimeout(t) == AtMost(RequestTimeout, call[t].deadline - now)

PostStarts(t) ==
  /\ AttemptDue(t)
  /\ now < call[t].deadline
  /\ Goes(t, "post", [call[t] EXCEPT !.wake = now + PostTimeout(t)])
  /\ UNCHANGED <<storeVars, now, history>>

PostTooLate(t) ==
  /\ AttemptDue(t)
  /\ now >= call[t].deadline
  /\ Move(t, "giveup")
  /\ UNCHANGED <<storeVars, now, call, history>>

\* 2xx, and every status that ends the attempts: 3xx and 4xx but 429.
FinalAnswer(t) ==
  /\ pc[t] = "post"
  /\ \E success \in BOOLEAN :
       /\ Goes(t, "ack", [call[t] EXCEPT !.success = success])
       /\ received' = IF success THEN received \cup {call[t].batch} ELSE received
  /\ answered' = answered \cup {call[t].batch}
  /\ UNCHANGED <<storeVars, now, used, promised, gone, notBefore>>

Again(t, after, until) ==
  Goes(t, "attempt", [call[t] EXCEPT !.attempt = @ + 1, !.after = after, !.until = until])

RetryableStatus(t) ==
  /\ pc[t] = "post"
  /\ \/ /\ Again(t, NoHeader, call[t].until)
        /\ UNCHANGED notBefore
     \/ \E seconds \in RetryAfters :
          LET after == AtMost(seconds, MaxRetryAfter) IN
          /\ Again(t, after, now + after)
          /\ notBefore' = [notBefore EXCEPT ![call[t].batch] = now + after]
  /\ UNCHANGED <<storeVars, now, used, promised, received, answered, gone>>

ErrorIsFinal(t) == \* mutant
  /\ pc[t] = "post"
  /\ Goes(t, "ack", call[t])
  /\ received' \in {received, received \cup {call[t].batch}}
  /\ UNCHANGED <<storeVars, now, used, promised, answered, gone, notBefore>>

NetworkError(t) ==
  /\ pc[t] = "post"
  /\ Again(t, NoHeader, call[t].until)
  /\ received' \in {received, received \cup {call[t].batch}}
  /\ UNCHANGED <<storeVars, now, used, promised, answered, gone, notBefore>>

AcknowledgeStarts(t) ==
  /\ pc[t] = "ack"
  /\ AcknowledgeBegins(call[t].batch)
  /\ Move(t, "acking")
  /\ UNCHANGED <<now, call, history>>

\* All attempts failed: the batch stays in the log, paused as the server asked.
PauseStarts(t) ==
  /\ pc[t] = "giveup"
  /\ PauseBegins(call[t].batch, call[t].until)
  /\ Move(t, "pausing")
  /\ UNCHANGED <<now, call, history>>

-----------------------------------------------------------------------------
(* The file, the process and the clock.                                    *)

Replace == ReplaceFile /\ UNCHANGED <<now, pc, call, history>>

\* What is written down of a pause is all that is left of it.
Written(b) ==
  IF \E i \in DOMAIN file' : file'[i] = Record(b, notBefore[b]) THEN notBefore[b] ELSE 0

Crash ==
  /\ ProcessDies \/ PowerFails
  /\ pc' = [t \in Threads |-> "idle"]
  /\ call' = [t \in Threads |-> NoCall]
  /\ notBefore' = [b \in Batch |-> Written(b)]
  /\ UNCHANGED <<now, used, promised, received, answered, gone>>

Restart == Opens /\ UNCHANGED <<now, pc, call, history>>

Waiting(t) ==
  \/ pc[t] = "idle"
  \/ pc[t] = "lock" /\ ~LockFree /\ now < call[t].deadline
  \/ pc[t] \in {"paused", "backoff", "post"} /\ now < call[t].wake

Tick ==
  /\ now < MaxTime
  /\ \A t \in Threads : Waiting(t)
  /\ now' = now + 1
  /\ UNCHANGED <<storeVars, pc, call, history>>

Step(t) ==
  \/ SendCalled(t) \/ RecoverCalled(t) \/ PersistCalled(t)
  \/ LockTaken(t) \/ LockTimesOut(t)
  \/ PutStarts(t) \/ PutRefused(t) \/ MutationReturns(t) \/ MutationRaises(t)
  \/ PersistConfirms(t)
  \/ RecoverDone(t) \/ NextRecord(t) \/ PauseOver(t)
  \/ RetryWaits(t) \/ PostStarts(t) \/ PostTooLate(t)
  \/ FinalAnswer(t) \/ RetryableStatus(t) \/ NetworkError(t)
  \/ AcknowledgeStarts(t) \/ PauseStarts(t)

Next == (\E t \in Threads : Step(t)) \/ Replace \/ Crash \/ Restart \/ Tick

Spec == Init /\ [][Next]_vars
=============================================================================
