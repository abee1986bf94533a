---------------------------- MODULE EventLedger ----------------------------
(***************************************************************************)
(* EventCustody with the public totals, delivered_total + lost_total: they *)
(* grow by exactly the events settled out of memory.  Events settled by    *)
(* replaying the log are in neither total, but for the one that a shutdown *)
(* wrote to the log, found settled when it looked, and counted as lost.    *)
(***************************************************************************)
EXTENDS EventCustody, Naturals, FiniteSets

VARIABLE counted  \* delivered_total + lost_total

ledgerVars == <<where, counted>>

Init == CustodyInit /\ counted = 0

Accept(e) == Accepted(e) /\ UNCHANGED counted

\* A full queue counts the event, a closed manager does not.
Refuse(e) == Refused(e) /\ counted' \in {counted, counted + 1}

Retain(E) == Retained(E) /\ UNCHANGED counted

Settle(E) == Settled(E) /\ counted' = counted + Cardinality(E)

Recount(E) ==
  /\ \E e \in Event : where[e] = "settled"
  /\ \/ E = {} /\ UNCHANGED where
     \/ Settled(E)
  /\ counted' = counted + Cardinality(E) + 1

Replay(E) == Replayed(E) /\ UNCHANGED counted

Fork == Parted /\ UNCHANGED counted

Next ==
  \/ \E e \in Event : Accept(e) \/ Refuse(e)
  \/ \E E \in SUBSET Event : Retain(E) \/ Settle(E) \/ Recount(E) \/ Replay(E)
  \/ Fork

Spec == Init /\ [][Next]_ledgerVars
=============================================================================
