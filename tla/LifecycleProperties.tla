------------------------ MODULE LifecycleProperties ------------------------
(***************************************************************************)
(* What must hold of ClientLifecycle.  The child of a fork that inherited  *)
(* a client shut down earlier is left out where a comment says so: nothing *)
(* repairs that copy (client.py:501-507).                                  *)
(***************************************************************************)
EXTENDS ClientLifecycle

Repairable == forked # "inherited"
Sends == {f \in Frames : Sending(f)}

\* The client's fields, its log and its frames are typed (client.py:102-110).
TypeOK ==
  /\ closed \in BOOLEAN /\ inflight \in Nat /\ ids \subseteq Event /\ live \in BOOLEAN
  /\ durable \in BOOLEAN /\ log \in Seq(Event) /\ (~durable => log = <<>>)
  /\ holders \subseteq Frames
  /\ frame \in [Frames ->
       [op : {"none", "track", "flush", "shutdown", "exit", "pending", "kill", "hung"},
        pc : {"idle", "lock", "post", "settle", "replay", "drain", "drain_wait",
              "snapshot", "kill", "reading", "hung"},
        event : Nat, bounded : BOOLEAN, late : BOOLEAN, todo : Seq(Event),
        owed : SUBSET Event, seen : SUBSET Event, count : Nat]]
  /\ handling \in BOOLEAN /\ alive \in BOOLEAN /\ forked \in {"no", "repaired", "inherited"}
  /\ stuck \subseteq Locks /\ (stuck # {} => ~Repairable)
  /\ tracked \in 0 .. MaxEvents
  /\ fate \in [Event -> {"new", "refused", "sending", "answered", "stored", "failed", "parent"}]

\* The count of inline sends and the set of their batches are exactly the threads
\* inside _enqueue, through every outcome of a send and through a fork that
\* copied another thread's send (client.py:315-328, 343-344).
InflightExact ==
  Repairable =>
    /\ inflight = Cardinality(Sends)
    /\ ids = {frame[f].event : f \in Sends}

\* A record of the log is owed, and an event owed is in the log or in the hands of
\* one thread: the replay of a flush, the send that wrote the record and its
\* acknowledgement never lose an event or keep one that was answered
\* (client.py:234-236, 322-328; transport.py:104-160).
InlineConservation ==
  Repairable =>
    /\ \A i, j \in DOMAIN log : log[i] = log[j] => i = j
    /\ \A e \in Event :
         /\ fate[e] = "sending" =>
              \E f \in Frames : frame[f].event = e /\ frame[f].pc \in {"lock", "post"}
         /\ e \in ToSet(log) => \/ fate[e] = "stored"
                                \/ \E f \in Frames : frame[f].event = e /\ frame[f].pc = "post"
         /\ fate[e] = "stored" => e \in ToSet(log)

OnWire(f, e) ==
  \/ frame[f].pc = "post" /\ frame[f].event = e
  \/ frame[f].pc = "replay" /\ frame[f].todo # <<>> /\ Head(frame[f].todo) = e

\* No event is posted by two activations at a time, and none that was answered is
\* posted again, unless a termination handler replays the record the main thread
\* was sending when it was interrupted: the delivery lock is re-entrant
\* (client.py:455-470; transport.py:102, 138-160).
OneSender ==
  \A f, g \in Frames : \A e \in Event :
    /\ OnWire(f, e) /\ OnWire(g, e) /\ f # g => {f, g} = {Main, Handler}
    /\ OnWire(f, e) /\ fate[e] = "answered" => f = Main /\ handling

\* pending lies between the events that were pending throughout the call and those
\* pending at one of its ends, although it reads the count and the log in two
\* sections and an event may move between them (client.py:123-132).
PendingBracket ==
  \A t \in Threads :
    At(t, "snapshot") /\ Repairable =>
      LET pending == ids \cup ToSet(log) IN
        /\ Cardinality(frame[t].owed \cap pending) <= PendingValue(t)
        /\ PendingValue(t) <= Cardinality(frame[t].owed \cup pending)

\* A shutdown waits only while there is a send that will settle and wake it
\* (client.py:243-249, 324-328).
Awaited ==
  Repairable /\ (\E t \in Threads : frame[t].pc = "drain_wait") => Sends # {}

Returns(f, op) == frame[f].op = op /\ frame[f].pc # "idle" /\ frame'[f].pc = "idle" /\ alive'
ReplayedAll(f) == frame[f].pc = "replay" /\ frame[f].todo = <<>>

\* A shutdown whose deadline has not passed returns with no send in progress, none
\* starts after it, and an unbounded one whose replay got through leaves the log
\* empty: admission and closing are one section each (client.py:239-258, 315-328).
\* A flush that returns TRUE leaves nothing that was in the log when it was called
\* (client.py:230-236); what was being sent is another matter (README, 6).
ReturnsHonest ==
  [][/\ closed /\ Sends = {} => {f \in Frames : Sending(f)'} = {}
     /\ \A t \in Threads : forked' = forked =>
          /\ Repairable /\ Returns(t, "shutdown") /\ ~frame[t].late =>
               /\ {f \in Frames : Sending(f)'} = {}
               /\ ReplayedAll(t) => log' = <<>>
          /\ Returns(t, "flush") /\ ReplayedAll(t) =>
               frame[t].owed \cap ToSet(log') = {}]_vars

InHand(e) == \E f \in Sends : frame[f].event = e /\ frame[f].pc \in {"lock", "post"}

\* The custody of an event is read off the calls and the log that hold it, not off
\* the history variable, but for what a fork has left to the parent.
Custody(e) ==
  IF e > tracked THEN "outside"
  ELSE IF InHand(e) THEN "memory"
  ELSE IF e \in ToSet(log) THEN "log"
  ELSE IF fate[e] = "parent" THEN "parent" ELSE "settled"

Custodies == [e \in Event |-> Custody(e)]

Promise == INSTANCE EventCustody WITH where <- Custodies

\* An inline client keeps the promise of EventCustody, as the batch manager does: no
\* send, replay, shutdown or handler brings an event back that was settled, or takes
\* a record out of the log for a send to settle again (client.py:276-328;
\* transport.py:104-160).  The fork that copies a client shut down earlier leaves
\* the copy its parent's log; what the copy does then is bound by the promise.
KeepsCustody ==
  /\ Promise!CustodyInit
  /\ [][Promise!CustodyNext \/ (Repairable /\ ~Repairable')]_Custodies

-----------------------------------------------------------------------------
Over(f) == frame[f].pc = "idle" \/ ~alive \/ handling

\* A call given a deadline returns, and a termination handler ends the process,
\* although requests never end (client.py:234-249, 455-470).  The deadline bounds the
\* waits for sends, for the delivery lock and for requests, in the child of a fork too;
\* it does not bound the wait for the client's or the store's lock, whose copies are
\* never released in a child that inherited a client shut down earlier while another
\* thread of the parent had one (client.py:243; persistence.py:199; README, 6).
BoundedCallsReturn ==
  /\ \A t \in Threads : (frame[t].bounded /\ stuck \subseteq {"delivery"}) ~> Over(t)
  /\ handling ~> ~alive
=============================================================================
