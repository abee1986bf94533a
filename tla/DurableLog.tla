----------------------------- MODULE DurableLog -----------------------------
(***************************************************************************)
(* What the write-ahead log promises as long as the machine does not stop: *)
(* the batches on disk form a queue that every crash of the process leaves *)
(* as it is; a batch enters it at the end, at most once ever; the server   *)
(* sees only batches in it; and a batch leaves it only after the server    *)
(* has answered for it.                                                    *)
(***************************************************************************)
EXTENDS Sequences, FiniteSets, SequencesExt

CONSTANT Batch

VARIABLES
  log,       \* the batches on disk
  used,      \* the batches that were given to the log
  sent,      \* the batches the server has accepted
  answered   \* the batches the server has answered for

logVars == <<log, used, sent, answered>>

Init == log = <<>> /\ used = {} /\ sent = {} /\ answered = {}

Give(b) == b \notin used /\ used' = used \cup {b} /\ UNCHANGED <<log, sent, answered>>

Enter(b) ==
  /\ b \in used /\ b \notin ToSet(log) \cup sent \cup answered
  /\ log' = Append(log, b)
  /\ UNCHANGED <<used, sent, answered>>

\* The server accepts or refuses a batch; the answer may be lost.
Answer(b) ==
  /\ b \in ToSet(log)
  /\ sent' \in {sent, sent \cup {b}}
  /\ answered' \in {answered, answered \cup {b}}
  /\ UNCHANGED <<log, used>>

Leave(b) ==
  /\ b \in answered
  /\ \E i \in DOMAIN log : log[i] = b /\ log' = RemoveAt(log, i)
  /\ UNCHANGED <<used, sent, answered>>

Next == \E b \in Batch : Give(b) \/ Enter(b) \/ Answer(b) \/ Leave(b)

Spec == Init /\ [][Next]_logVars
=============================================================================
