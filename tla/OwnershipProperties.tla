------------------------ MODULE OwnershipProperties ------------------------
(* What must hold of PathOwnership, and what a comment says it does not do. *)
EXTENDS PathOwnership

Named == {"file", "flock", "load", "open", "unregister", "unregistering"}
Registered(p) == {s \in Stores : pc[p][s] \in Named}
LiveOwners == {o \in Processes \X Stores : process[o[1]] = "running" /\ live[o[1]][o[2]]}

\* Processes, registries, stores and the advisory lock are typed; a descriptor is
\* only kept by a store that is being opened or is open (persistence.py:19-20,
\* 38-41, 282-285).
TypeOK ==
  /\ process \in [Processes -> {"absent", "hook", "running"}]
  /\ owned \in [Processes -> BOOLEAN]
  /\ mutex \in [Processes -> Stores \cup {Free, Ghost}]
  /\ pc \in [Processes ->
       [Stores -> Named \cup {"none", "register", "registering", "frozen"}]]
  /\ file \in [Processes -> [Stores -> Files \cup {0}]]
  /\ live \in [Processes -> [Stores -> BOOLEAN]]
  /\ mine \in [Processes -> [Stores -> BOOLEAN]]
  /\ holder \in Files \cup {0}
  /\ \A p \in Processes : \A s \in Stores :
       /\ live[p][s] => pc[p][s] = "open"
       /\ file[p][s] # 0 => pc[p][s] \in {"flock", "load", "open", "frozen"}

\* In a process at most one store has the path, and the registry knows it, also
\* while constructors and finalizers of several threads race; a key without a
\* store is only left behind by a fork during one of them
\* (persistence.py:263-270, 299-303).
OneStorePerProcess ==
  \A p \in Processes :
    /\ Cardinality(Registered(p)) <= 1
    /\ Registered(p) # {} => owned[p]
    /\ owned[p] => Registered(p) # {} \/ \E s \in Stores : pc[p][s] = "frozen"

\* At most one live client of all processes owns the path, and the advisory lock
\* is its own as long as it lives: no fork, repair, collection or death of
\* another process takes it away (README.md:84-86;
\* persistence.py:165-183, 277-303).
LiveOwnerHoldsLock ==
  /\ Cardinality(LiveOwners) <= 1
  /\ \A o \in LiveOwners : holder # 0 /\ holder = file[o[1]][o[2]]

\* The hook of a child ends, and every constructor and finalizer of every process
\* gives its descriptor and its key back or keeps an open store, whatever is
\* refused or raises on the way.  The one thing a thread can wait for in vain is
\* _OWNED_PATHS_LOCK, and the code does let that happen, in two ways: a fork while
\* another thread is inside (nothing replaces the lock in the child), and a
\* finalizer that the collector runs in the very thread that is inside.  Even then
\* nobody waits anywhere else, and not with a descriptor of its own
\* (client.py:503-507; persistence.py:20, 192-196, 266-269, 282-288, 302).
LockLost(p) == mutex[p] = Ghost
NothingHangs ==
  \A p \in Processes :
    /\ process[p] = "hook" ~> process[p] # "hook" \/ LockLost(p)
    /\ \A s \in Stores :
         pc[p][s] \in (Named \ {"open"}) \cup {"register", "registering"}
           ~> \/ pc[p][s] \in {"none", "open"}
              \/ /\ LockLost(p) /\ file[p][s] = 0
                 /\ pc[p][s] \in {"register", "unregister", "frozen"}

-----------------------------------------------------------------------------
\* persistence.py:178-180: in a child "an explicit LOCK_UN here could release the
\* parent's advisory lock as well".  The copy of a client that was shut down is
\* not repaired (client.py:504): when it is collected, close() unlocks.
OpenStoreKeepsLock ==
  \A p \in Processes : \A s \in Stores :
    At(p, s, "open") /\ mine[p][s] => holder = file[p][s]
=============================================================================
