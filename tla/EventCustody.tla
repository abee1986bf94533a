---------------------------- MODULE EventCustody ----------------------------
(***************************************************************************)
(* What the SDK promises about the events given to it, however it sends    *)
(* them: at any moment an event is in exactly one custody, memory or the   *)
(* log, until it is settled once and for all; it may go from memory to the *)
(* log but never back; and the child of a fork owes none of them.          *)
(***************************************************************************)
CONSTANT Event

VARIABLE where    \* the custody of each event

CustodyInit == where = [e \in Event |-> "outside"]

Moves(E, from, to) ==
  /\ E # {} /\ \A e \in E : where[e] = from
  /\ where' = [e \in Event |-> IF e \in E THEN to ELSE where[e]]

Accepted(e) == Moves({e}, "outside", "memory")
Refused(e) == Moves({e}, "outside", "settled")
Retained(E) == Moves(E, "memory", "log")
Settled(E) == Moves(E, "memory", "settled")
Replayed(E) == Moves(E, "log", "settled")

\* What is not settled when the process forks is its parent's.
Parted ==
  where' = [e \in Event |-> IF where[e] \in {"memory", "log"} THEN "parent" ELSE where[e]]

CustodyNext ==
  \/ \E e \in Event : Accepted(e) \/ Refused(e)
  \/ \E E \in SUBSET Event : Retained(E) \/ Settled(E) \/ Replayed(E)
  \/ Parted

CustodySpec == CustodyInit /\ [][CustodyNext]_where
=============================================================================
