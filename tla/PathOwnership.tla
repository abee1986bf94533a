--------------------------- MODULE PathOwnership ---------------------------
(***************************************************************************)
(* Who owns a persistence path (persistence.py:19-48, 165-196, 255-303;    *)
(* client.py:501-507): a registry of paths in each process, under a lock,  *)
(* and an advisory lock on a file beside the log, across shutdown,         *)
(* collection, fork() and the death of processes.  There is one path.      *)
(*                                                                         *)
(* flock() belongs to an open file, which a fork shares with the child:    *)
(* LOCK_UN through any copy of the descriptor releases it, and so does     *)
(* closing the last copy.  A fork copies the objects that other threads    *)
(* were building or closing ("frozen": nothing goes on with them), and a   *)
(* registry lock another thread held, which the child can never release.   *)
(* A finalizer is run by whatever thread drops the last reference, or by   *)
(* the collector in the middle of any thread, one that is inside the       *)
(* registry's lock included: it then waits for its own thread.             *)
(***************************************************************************)
EXTENDS Integers, FiniteSets

CONSTANTS
  Processes,
  Stores,      \* names of the stores a process may have at a time
  Files,       \* bound: open files, one for each store of each process
  Free, Ghost

ASSUME OwnershipAssumption ==
  /\ 0 \notin Files
  /\ {Free, Ghost} \cap Stores = {} /\ Free # Ghost

VARIABLES
  process,  \* per process: "absent", in the "hook" of a fork, or "running"
  owned,    \* per process: the path is in _OWNED_PATHS
  mutex,    \* per process: the store inside _OWNED_PATHS_LOCK, Free, or Ghost
            \* when its holder can never give it back
  pc,       \* per process and store: what is being done with it
  file,     \* its open file, or 0
  live,     \* whether its client is in _LIVE_INSTANCES
  mine,     \* history: whether it was opened here, and not inherited
  holder    \* the open file that has the advisory lock, or 0

registry == <<owned, mutex>>
store == <<pc, file, live, mine>>
vars == <<process, registry, store, holder>>

Init ==
  /\ process = [p \in Processes |-> "absent"]
  /\ owned = [p \in Processes |-> FALSE]
  /\ mutex = [p \in Processes |-> Free]
  /\ pc = [p \in Processes |-> [s \in Stores |-> "none"]]
  /\ file = [p \in Processes |-> [s \in Stores |-> 0]]
  /\ live = [p \in Processes |-> [s \in Stores |-> FALSE]]
  /\ mine = [p \in Processes |-> [s \in Stores |-> FALSE]]
  /\ holder = 0

-----------------------------------------------------------------------------
At(p, s, place) == process[p] # "absent" /\ pc[p][s] = place
Goes(p, s, place) == pc' = [pc EXCEPT ![p][s] = place]
Opened(files) == {files[p][s] : p \in Processes, s \in Stores}
Unused == Files \ Opened(file)
\* The lock of a file with no descriptor left is released.
HolderIn(files) == IF holder \in Opened(files) THEN holder ELSE 0

Start(p) ==
  /\ process[p] = "absent"
  /\ process' = [process EXCEPT ![p] = "running"]
  /\ UNCHANGED <<registry, store, holder>>

Dies(p) ==
  /\ process[p] # "absent"
  /\ process' = [process EXCEPT ![p] = "absent"]
  /\ owned' = [owned EXCEPT ![p] = FALSE]
  /\ mutex' = [mutex EXCEPT ![p] = Free]
  /\ pc' = [pc EXCEPT ![p] = [s \in Stores |-> "none"]]
  /\ file' = [file EXCEPT ![p] = [s \in Stores |-> 0]]
  /\ live' = [live EXCEPT ![p] = [s \in Stores |-> FALSE]]
  /\ mine' = [mine EXCEPT ![p] = [s \in Stores |-> FALSE]]
  /\ holder' = HolderIn(file')

-----------------------------------------------------------------------------
(* Opening a store.                                                        *)

New(p, s) ==
  /\ process[p] = "running" /\ At(p, s, "none")
  /\ Goes(p, s, "register")
  /\ UNCHANGED <<process, registry, file, live, mine, holder>>

Enters(p, s, from, to) ==
  /\ mutex[p] = Free
  /\ At(p, s, from) /\ Goes(p, s, to)
  /\ mutex' = [mutex EXCEPT ![p] = s]
  /\ UNCHANGED <<process, owned, file, live, mine, holder>>

EnterRegistry(p, s) ==
  \/ Enters(p, s, "register", "registering")
  \/ Enters(p, s, "unregister", "unregistering")

StaysInside(p) == UNCHANGED mutex \* mutant
LeavesRegistry(p) == mutex' = [mutex EXCEPT ![p] = Free]

NeverOwned(p) == FALSE \* mutant
PathOwned(p) == owned[p]

RegisterRefused(p, s) ==
  /\ At(p, s, "registering") /\ PathOwned(p)
  /\ Goes(p, s, "none") /\ LeavesRegistry(p)
  /\ UNCHANGED <<process, owned, file, live, mine, holder>>

Register(p, s) ==
  /\ At(p, s, "registering") /\ ~PathOwned(p)
  /\ Goes(p, s, "file") /\ LeavesRegistry(p)
  /\ owned' = [owned EXCEPT ![p] = TRUE]
  /\ UNCHANGED <<process, file, live, mine, holder>>

FileOpened(p, s) ==
  /\ At(p, s, "file") /\ Unused # {}
  /\ Goes(p, s, "flock")
  /\ file' = [file EXCEPT ![p][s] = CHOOSE f \in Unused : TRUE]
  /\ UNCHANGED <<process, registry, live, mine, holder>>

FileRefused(p, s) ==
  /\ At(p, s, "file")
  /\ Goes(p, s, "unregister")
  /\ UNCHANGED <<process, registry, file, live, mine, holder>>

FlockTaken(p, s) ==
  /\ At(p, s, "flock") /\ holder = 0
  /\ holder' = file[p][s]
  /\ Goes(p, s, "load") /\ mine' = [mine EXCEPT ![p][s] = TRUE]
  /\ UNCHANGED <<process, registry, file, live>>

LeaksFile(p, s) == UNCHANGED file \* mutant
CloseFile(p, s) == file' = [file EXCEPT ![p][s] = 0]

\* Another file has the lock, or chmod raises.
FlockFails(p, s) ==
  /\ At(p, s, "flock")
  /\ Goes(p, s, "unregister") /\ CloseFile(p, s)
  /\ holder' = HolderIn(file')
  /\ UNCHANGED <<process, registry, live, mine>>

\* The client is built and joins _LIVE_INSTANCES.
Loaded(p, s) ==
  /\ At(p, s, "load")
  /\ Goes(p, s, "open") /\ live' = [live EXCEPT ![p][s] = TRUE]
  /\ UNCHANGED <<process, registry, file, mine, holder>>

-----------------------------------------------------------------------------
(* Letting go.                                                             *)

LetsGo(p, s) ==
  /\ Goes(p, s, "unregister") /\ CloseFile(p, s)
  /\ live' = [live EXCEPT ![p][s] = FALSE]
  /\ mine' = [mine EXCEPT ![p][s] = FALSE]

\* LOCK_UN releases the lock of the file, whichever copy of its descriptor is used.
Unlocked(f) == IF holder = f THEN 0 ELSE holder

LoadFails(p, s) ==
  /\ At(p, s, "load")
  /\ LetsGo(p, s) /\ holder' = Unlocked(file[p][s])
  /\ UNCHANGED <<process, registry>>

\* shutdown() leaves the store open: close() is left to the collector.
Shutdown(p, s) ==
  /\ At(p, s, "open") /\ process[p] = "running" /\ live[p][s]
  /\ live' = [live EXCEPT ![p][s] = FALSE]
  /\ UNCHANGED <<process, registry, pc, file, mine, holder>>

\* __del__ of a store whose client is shut down, a copy made by fork() included.
Collect(p, s) ==
  /\ At(p, s, "open") /\ ~live[p][s]
  /\ LetsGo(p, s) /\ holder' = Unlocked(file[p][s])
  /\ UNCHANGED <<process, registry>>

\* The same, run by the collector in the thread that is inside the registry: the
\* lock is not reentrant, so the finalizer waits for the constructor it suspends.
CollectInside(p, s, t) ==
  /\ At(p, s, "open") /\ ~live[p][s]
  /\ mutex[p] = t /\ (At(p, t, "registering") \/ At(p, t, "unregistering"))
  /\ mutex' = [mutex EXCEPT ![p] = Ghost]
  /\ pc' = [pc EXCEPT ![p][t] = "frozen", ![p][s] = "unregister"]
  /\ CloseFile(p, s) /\ holder' = Unlocked(file[p][s])
  /\ mine' = [mine EXCEPT ![p][s] = FALSE]
  /\ UNCHANGED <<process, owned, live>>

KeepsKey(p) == owned[p] \* mutant
Discarded(p) == FALSE

Unregister(p, s) ==
  /\ At(p, s, "unregistering")
  /\ Goes(p, s, "none") /\ LeavesRegistry(p)
  /\ owned' = [owned EXCEPT ![p] = Discarded(p)]
  /\ UNCHANGED <<process, file, live, mine, holder>>

-----------------------------------------------------------------------------
(* fork() and the hook that runs in the child.                             *)

Copied(place) == IF place \in {"none", "open"} THEN place ELSE "frozen"

Fork(p, child) ==
  /\ process[p] = "running" /\ process[child] = "absent"
  /\ process' = [process EXCEPT ![child] = "hook"]
  /\ owned' = [owned EXCEPT ![child] = owned[p]]
  /\ mutex' = [mutex EXCEPT ![child] = IF mutex[p] = Free THEN Free ELSE Ghost]
  /\ pc' = [pc EXCEPT ![child] = [s \in Stores |-> Copied(pc[p][s])]]
  /\ file' = [file EXCEPT ![child] = file[p]]
  /\ live' = [live EXCEPT ![child] = live[p]]
  /\ UNCHANGED <<mine, holder>>

ReleasesParent(f) == Unlocked(f) \* mutant
\* Closed without LOCK_UN: the parent's descriptor keeps the lock.
OnlyClosed(f) == HolderIn(file')

Repair(p, s) ==
  /\ At(p, s, "open") /\ process[p] = "hook" /\ live[p][s]
  /\ LetsGo(p, s) /\ holder' = OnlyClosed(file[p][s])
  /\ UNCHANGED <<process, registry>>

HookDone(p) ==
  /\ process[p] = "hook"
  /\ \A s \in Stores : ~live[p][s] /\ pc[p][s] \in {"none", "open", "frozen"}
  /\ process' = [process EXCEPT ![p] = "running"]
  /\ UNCHANGED <<registry, store, holder>>

-----------------------------------------------------------------------------
Registry(p, s) == RegisterRefused(p, s) \/ Register(p, s) \/ Unregister(p, s)
Opening(p, s) ==
  \/ FileOpened(p, s) \/ FileRefused(p, s) \/ FlockTaken(p, s) \/ FlockFails(p, s)
  \/ Loaded(p, s) \/ LoadFails(p, s)

Next ==
  \E p \in Processes :
    \/ Start(p) \/ Dies(p) \/ HookDone(p)
    \/ \E child \in Processes : Fork(p, child)
    \/ \E s \in Stores :
         \/ New(p, s) \/ EnterRegistry(p, s) \/ Registry(p, s) \/ Opening(p, s)
         \/ Shutdown(p, s) \/ Collect(p, s) \/ Repair(p, s)
         \/ \E t \in Stores : CollectInside(p, s, t)

\* Threads run, and a lock that is given back again and again reaches each of them.
Fairness ==
  \A p \in Processes :
    /\ WF_vars(HookDone(p))
    /\ \A s \in Stores :
         /\ WF_vars(Registry(p, s)) /\ WF_vars(Opening(p, s)) /\ WF_vars(Repair(p, s))
         /\ SF_vars(EnterRegistry(p, s))

Spec == Init /\ [][Next]_vars
FairSpec == Spec /\ Fairness
=============================================================================
