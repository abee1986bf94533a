------------------------ MODULE TransportProperties ------------------------
(***************************************************************************)
(* What must hold of HttpTransport and of the log under it.                *)
(***************************************************************************)
EXTENDS HttpTransport

Records == [batch : Batch, until : Nat]
CallStates ==
  [op : {"none", "send", "recover", "persist"}, batch : Batch \cup {"none"},
   deadline : Nat, attempt : 0 .. MaxRetries + 1, wake : Int, after : Nat \cup {NoHeader},
   until : Nat, todo : Seq(Records), success : BOOLEAN,
   outcome : {"none", "success", "rejected", "retained", "failed", "true", "false"}]

\* The store (persistence.py:39-46) and the calls of the transport are typed.
TypeOK ==
  /\ open \in BOOLEAN
  /\ records \in Seq(Records) /\ file \in Seq(Records)
  /\ survivors \subseteq Seq(Records)
  /\ write \in [stage : {"none", "begun", "replaced"}, previous : Seq(Records)]
  /\ now \in 0 .. MaxTime
  /\ pc \in [Threads -> Places]
  /\ call \in [Threads -> CallStates]
  /\ {used, promised, received, answered, gone} \subseteq SUBSET Batch
  /\ notBefore \in [Batch -> Nat]

-----------------------------------------------------------------------------
(* Invariants.                                                             *)

\* What the file may hold when the process, or the machine, is started again.
Kept == IF DirectorySync THEN survivors \cup {file} ELSE {file}

\* Once put() has returned, a batch is on disk until the server has answered for
\* it, whatever stops in between (persistence.py:104-123, 226-253).
LogKeepsPromises ==
  \A b \in promised \ answered : \A contents \in Kept : b \in Ids(contents)

\* Whatever is on disk can be loaded again: no crash, failed write or race leaves
\* a file that makes the next client's constructor raise (persistence.py:48-92).
LogLoads == \A contents \in Kept : Loadable(contents)

\* A batch on the wire is on disk (transport.py:114), and a replay posts the
\* oldest batch there is: an unanswered one is never overtaken (transport.py:154).
WireFollowsLog ==
  \A t \in Threads : pc[t] = "post" =>
    /\ call[t].batch \in Ids(file)
    /\ call[t].op = "recover" => Head(file).batch = call[t].batch

\* No call with a deadline outlives it, whatever it waits for: the delivery lock,
\* the pauses of older batches, backoff, Retry-After and answers all count
\* (transport.py:148, 204, 217, 278).
DeadlineKept == \A t \in Threads : pc[t] # "idle" => now <= call[t].deadline

-----------------------------------------------------------------------------
(* What a step may never do.                                               *)

Posts(t) == pc[t] # "post" /\ pc'[t] = "post"

\* A batch whose acknowledgement has returned is never sent again, not even after
\* a crash of the machine (persistence.py:125-137).
NeverResent == [][\A t \in Threads : Posts(t) => call'[t].batch \notin gone]_vars

\* No batch is sent before the time its last Retry-After asked for, by the call that
\* heard it or, if it could be written down, by any later one, also after a restart.
\* One that is not on disk when its process stops, or when writing it fails, is
\* forgotten, in the code and in notBefore (transport.py:201-209, 237-242).
RetryAfterHonoured ==
  [][\A t \in Threads : Posts(t) => now >= notBefore[call'[t].batch]]_vars

CallReturns(t) == pc[t] # "idle" /\ pc'[t] = "idle" /\ open'

\* A call tells its caller where the batch is: the batch manager puts a "failed"
\* batch back into its queue and forgets a "retained" one (batch.py:469-475), so
\* that the one must not be on disk and the other must.
HonestOutcome ==
  [][\A t \in Threads : CallReturns(t) =>
       LET b == call[t].batch  result == call'[t].outcome IN
       /\ result = "success" => b \in received
       /\ result = "rejected" => b \in answered
       /\ result = "retained" => \A contents \in Kept' : b \in Ids(contents)
       /\ result = "failed" => \A contents \in Kept' : b \notin Ids(contents)
       /\ call[t].op = "persist" /\ result = "true" => b \in promised
       /\ call[t].op = "persist" /\ result = "false" =>
            \A contents \in Kept' : b \notin Ids(contents)]_vars

-----------------------------------------------------------------------------
Log == INSTANCE DurableLog WITH
  log <- [i \in DOMAIN file |-> file[i].batch], sent <- received

KeepsLog == Log!Spec
=============================================================================
