--------------------------- MODULE ForkedManager ---------------------------
(***************************************************************************)
(* BatchManager in a process that forks (batch.py:243-256).  The behaviour *)
(* goes on in the child, where only the thread that forked exists: locks   *)
(* are new, the worker is gone, the events of the parent stay its own, and *)
(* no log is kept any more (persistence.py:165-183).                       *)
(* A closed manager is left out: its client may have left the registry     *)
(* that the repair goes through (ClientLifecycle).                         *)
(***************************************************************************)
EXTENDS BatchProperties

\* Fate of an event accepted, and not yet answered for, when its process forked.
Parents == "parent"

InflightKept == inflight \* mutant
InflightReset == 0

QueueCopied == queue \* mutant
QueueCleared == <<>>

LogStaysEnabled == enabled \* mutant
LogDisabled == FALSE

Fork(c) ==
  /\ pc[c] = "idle" /\ ~closed
  /\ queue' = QueueCleared /\ inflight' = InflightReset
  /\ job' = [t \in Threads |-> NoJob]
  /\ taken' = [d \in Callers |-> <<>>]
  /\ pc' = [t \in Threads |-> IF t = Worker THEN "off" ELSE "idle"]
  /\ call' = [t \in Threads |-> NoCall]
  /\ enabled' = LogDisabled /\ wal' = <<>> /\ todo' = 0
  /\ tickDue' = FALSE
  /\ fate' = [e \in Event |-> IF fate[e] \in {"held", "stored"} THEN Parents ELSE fate[e]]
  /\ UNCHANGED <<closed, finite, counters, submitted>>

SpecFork == Init /\ [][Next \/ \E c \in Callers : Fork(c)]_vars
SpecForkShutdown == SpecFork /\ ShutdownFairness

\* A child never has an event of its parent in hand, wherever in a batch, a retry
\* or a flush the parent's threads were when it forked (batch.py:246-248 "sending
\* the child's copy would double-count them"), nor does it settle one later or write
\* to the log that is the parent's (persistence.py:168-171).
ParentKeepsItsEvents ==
  [][\A e \in Event :
       fate[e] = Parents =>
         fate'[e] = Parents /\ e \notin HeldEvents' /\ wal' = <<>>]_vars
=============================================================================
