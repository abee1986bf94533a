-------------------------- MODULE OwnershipProofs --------------------------
(***************************************************************************)
(* PathOwnership keeps its types, gives a path to at most one store of     *)
(* each process, and never takes the advisory lock from a live owner.      *)
(***************************************************************************)
EXTENDS OwnershipProperties, FiniteSetTheorems, TLAPS

\* A thread between its two steps in the registry has the registry's lock.
InsideLocked ==
  \A p \in Processes : \A s \in Stores :
    pc[p][s] \in {"registering", "unregistering"} => mutex[p] = s

AbsentEmpty ==
  \A p \in Processes : process[p] = "absent" =>
    ~owned[p] /\ \A s \in Stores : pc[p][s] = "none"

RegisteredOnce ==
  \A p \in Processes :
    /\ \A s, t \in Stores : pc[p][s] \in Named /\ pc[p][t] \in Named => s = t
    /\ \A s \in Stores : pc[p][s] \in Named => owned[p]
    /\ owned[p] => \E s \in Stores : pc[p][s] \in Named \cup {"frozen"}

\* The stores that rely on the advisory lock.
Relies(p, s) ==
  pc[p][s] = "load" \/ (live[p][s] /\ process[p] = "running")

\* The other copies of a file that is relied on will not unlock it: nothing goes
\* on with them, or the hook closes them.
Harmless(p, s) ==
  pc[p][s] = "frozen" \/ (live[p][s] /\ process[p] = "hook")

\* A file that is being locked or is relied on has no other copy that matters.
LockRelied ==
  \A p \in Processes : \A s \in Stores :
    /\ Relies(p, s) => holder = file[p][s]
    /\ Relies(p, s) \/ pc[p][s] = "flock" =>
         /\ file[p][s] # 0
         /\ \A q \in Processes : \A t \in Stores :
              file[q][t] = file[p][s] => <<q, t>> = <<p, s>> \/ Harmless(q, t)

IInv == TypeOK /\ InsideLocked /\ AbsentEmpty /\ RegisteredOnce /\ LockRelied

\* Every step keeps the types.
LEMMA TypeStep ==
  ASSUME TypeOK, [Next]_vars PROVE TypeOK'
<1> USE OwnershipAssumption DEF TypeOK, Named, HolderIn
<1>1. ASSUME NEW p \in Processes, Start(p) PROVE TypeOK'
  BY <1>1 DEF Start, registry, store
<1>2. ASSUME NEW p \in Processes, Dies(p) PROVE TypeOK'
  BY <1>2 DEF Dies
<1>3. ASSUME NEW p \in Processes, HookDone(p) PROVE TypeOK'
  BY <1>3 DEF HookDone, registry, store
<1>4. ASSUME NEW p \in Processes, NEW child \in Processes, Fork(p, child) PROVE TypeOK'
  BY <1>4 DEF Fork, Copied
<1>5. ASSUME NEW p \in Processes, NEW s \in Stores, New(p, s) PROVE TypeOK'
  BY <1>5 DEF New, registry, At, Goes
<1>6. ASSUME NEW p \in Processes, NEW s \in Stores, Enters(p, s, "register", "registering") PROVE TypeOK'
  BY <1>6 DEF Enters, At, Goes
<1>7. ASSUME NEW p \in Processes, NEW s \in Stores, Enters(p, s, "unregister", "unregistering") PROVE TypeOK'
  BY <1>7 DEF Enters, At, Goes
<1>8. ASSUME NEW p \in Processes, NEW s \in Stores, RegisterRefused(p, s) PROVE TypeOK'
  BY <1>8 DEF RegisterRefused, LeavesRegistry, PathOwned, At, Goes
<1>9. ASSUME NEW p \in Processes, NEW s \in Stores, Register(p, s) PROVE TypeOK'
  BY <1>9 DEF Register, LeavesRegistry, PathOwned, At, Goes
<1>10. ASSUME NEW p \in Processes, NEW s \in Stores, Unregister(p, s) PROVE TypeOK'
  BY <1>10 DEF Unregister, LeavesRegistry, Discarded, At, Goes
<1>11. ASSUME NEW p \in Processes, NEW s \in Stores, FileOpened(p, s) PROVE TypeOK'
  <2> DEFINE f == CHOOSE g \in Unused : TRUE
  <2>1. f \in Files /\ file' = [file EXCEPT ![p][s] = f]
    BY <1>11 DEF FileOpened, Unused
  <2>2. /\ pc[p][s] = "file" /\ pc' = [pc EXCEPT ![p][s] = "flock"]
        /\ UNCHANGED <<process, owned, mutex, live, mine, holder>>
    BY <1>11 DEF FileOpened, registry, At, Goes
  <2> HIDE DEF f
  <2> QED
    BY <2>1, <2>2
<1>12. ASSUME NEW p \in Processes, NEW s \in Stores, FlockFails(p, s) PROVE TypeOK'
  BY <1>12 DEF FlockFails, registry, CloseFile, At, Goes
<1>13. ASSUME NEW p \in Processes, NEW s \in Stores, Loaded(p, s) PROVE TypeOK'
  BY <1>13 DEF Loaded, registry, At, Goes
<1>14. ASSUME NEW p \in Processes, NEW s \in Stores, LoadFails(p, s) PROVE TypeOK'
  BY <1>14 DEF LoadFails, registry, LetsGo, CloseFile, Unlocked, At, Goes
<1>15. ASSUME NEW p \in Processes, NEW s \in Stores, Shutdown(p, s) PROVE TypeOK'
  BY <1>15 DEF Shutdown, registry, At
<1>16. ASSUME NEW p \in Processes, NEW s \in Stores, Collect(p, s) PROVE TypeOK'
  BY <1>16 DEF Collect, registry, LetsGo, CloseFile, Unlocked, At, Goes
<1>17. ASSUME NEW p \in Processes, NEW s \in Stores, Repair(p, s) PROVE TypeOK'
  BY <1>17 DEF Repair, registry, LetsGo, CloseFile, OnlyClosed, At, Goes
<1>18. CASE UNCHANGED vars
  BY <1>18 DEF vars, registry, store
<1>19. ASSUME NEW p \in Processes, NEW s \in Stores, FileRefused(p, s) PROVE TypeOK'
  BY <1>19 DEF FileRefused, registry, At, Goes
<1>20. ASSUME NEW p \in Processes, NEW s \in Stores, FlockTaken(p, s) PROVE TypeOK'
  BY <1>20 DEF FlockTaken, registry, At, Goes
<1>21. ASSUME NEW p \in Processes, NEW s \in Stores, NEW t \in Stores, CollectInside(p, s, t) PROVE TypeOK'
  BY <1>21 DEF CollectInside, CloseFile, Unlocked, At
<1> QED
  BY <1>1, <1>2, <1>3, <1>4, <1>5, <1>6, <1>7, <1>8, <1>9, <1>10, <1>11, <1>12, <1>13, <1>14, <1>15, <1>16, <1>17, <1>18, <1>19, <1>20, <1>21 DEF Next, EnterRegistry, Registry, Opening

\* Nobody else takes the registry's lock while a thread is inside.
LEMMA InsideStep ==
  ASSUME TypeOK, InsideLocked, [Next]_vars PROVE InsideLocked'
<1> USE OwnershipAssumption DEF TypeOK, InsideLocked, Named
<1>1. ASSUME NEW p \in Processes, Start(p) PROVE InsideLocked'
  BY <1>1 DEF Start, registry, store
<1>2. ASSUME NEW p \in Processes, Dies(p) PROVE InsideLocked'
  BY <1>2 DEF Dies
<1>3. ASSUME NEW p \in Processes, HookDone(p) PROVE InsideLocked'
  BY <1>3 DEF HookDone, registry, store
<1>4. ASSUME NEW p \in Processes, NEW child \in Processes, Fork(p, child) PROVE InsideLocked'
  BY <1>4 DEF Fork, Copied
<1>5. ASSUME NEW p \in Processes, NEW s \in Stores, New(p, s) PROVE InsideLocked'
  BY <1>5 DEF New, registry, At, Goes
<1>6. ASSUME NEW p \in Processes, NEW s \in Stores, Enters(p, s, "register", "registering") PROVE InsideLocked'
  BY <1>6 DEF Enters, At, Goes
<1>7. ASSUME NEW p \in Processes, NEW s \in Stores, Enters(p, s, "unregister", "unregistering") PROVE InsideLocked'
  BY <1>7 DEF Enters, At, Goes
<1>8. ASSUME NEW p \in Processes, NEW s \in Stores, RegisterRefused(p, s) PROVE InsideLocked'
  BY <1>8 DEF RegisterRefused, LeavesRegistry, PathOwned, At, Goes
<1>9. ASSUME NEW p \in Processes, NEW s \in Stores, Register(p, s) PROVE InsideLocked'
  BY <1>9 DEF Register, LeavesRegistry, PathOwned, At, Goes
<1>10. ASSUME NEW p \in Processes, NEW s \in Stores, Unregister(p, s) PROVE InsideLocked'
  BY <1>10 DEF Unregister, LeavesRegistry, Discarded, At, Goes
<1>11. ASSUME NEW p \in Processes, NEW s \in Stores, FileOpened(p, s) PROVE InsideLocked'
  BY <1>11 DEF FileOpened, registry, At, Goes
<1>12. ASSUME NEW p \in Processes, NEW s \in Stores, FlockFails(p, s) PROVE InsideLocked'
  BY <1>12 DEF FlockFails, registry, CloseFile, At, Goes
<1>13. ASSUME NEW p \in Processes, NEW s \in Stores, Loaded(p, s) PROVE InsideLocked'
  BY <1>13 DEF Loaded, registry, At, Goes
<1>14. ASSUME NEW p \in Processes, NEW s \in Stores, LoadFails(p, s) PROVE InsideLocked'
  BY <1>14 DEF LoadFails, registry, LetsGo, CloseFile, Unlocked, At, Goes
<1>15. ASSUME NEW p \in Processes, NEW s \in Stores, Shutdown(p, s) PROVE InsideLocked'
  BY <1>15 DEF Shutdown, registry, At
<1>16. ASSUME NEW p \in Processes, NEW s \in Stores, Collect(p, s) PROVE InsideLocked'
  BY <1>16 DEF Collect, registry, LetsGo, CloseFile, Unlocked, At, Goes
<1>17. ASSUME NEW p \in Processes, NEW s \in Stores, Repair(p, s) PROVE InsideLocked'
  BY <1>17 DEF Repair, registry, LetsGo, CloseFile, OnlyClosed, At, Goes
<1>18. CASE UNCHANGED vars
  BY <1>18 DEF vars, registry, store
<1>19. ASSUME NEW p \in Processes, NEW s \in Stores, FileRefused(p, s) PROVE InsideLocked'
  BY <1>19 DEF FileRefused, registry, At, Goes
<1>20. ASSUME NEW p \in Processes, NEW s \in Stores, FlockTaken(p, s) PROVE InsideLocked'
  BY <1>20 DEF FlockTaken, registry, At, Goes
<1>21. ASSUME NEW p \in Processes, NEW s \in Stores, NEW t \in Stores, CollectInside(p, s, t) PROVE InsideLocked'
  BY <1>21 DEF CollectInside, CloseFile, Unlocked, At
<1> QED
  BY <1>1, <1>2, <1>3, <1>4, <1>5, <1>6, <1>7, <1>8, <1>9, <1>10, <1>11, <1>12, <1>13, <1>14, <1>15, <1>16, <1>17, <1>18, <1>19, <1>20, <1>21 DEF Next, EnterRegistry, Registry, Opening

\* A process that is not there has nothing.
LEMMA AbsentStep ==
  ASSUME TypeOK, AbsentEmpty, [Next]_vars PROVE AbsentEmpty'
<1> USE OwnershipAssumption DEF TypeOK, AbsentEmpty
<1>1. ASSUME NEW p \in Processes, Start(p) PROVE AbsentEmpty'
  BY <1>1 DEF Start, registry, store
<1>2. ASSUME NEW p \in Processes, Dies(p) PROVE AbsentEmpty'
  BY <1>2 DEF Dies
<1>3. ASSUME NEW p \in Processes, HookDone(p) PROVE AbsentEmpty'
  BY <1>3 DEF HookDone, registry, store
<1>4. ASSUME NEW p \in Processes, NEW child \in Processes, Fork(p, child) PROVE AbsentEmpty'
  BY <1>4 DEF Fork, Copied
<1>5. ASSUME NEW p \in Processes, NEW s \in Stores, New(p, s) PROVE AbsentEmpty'
  BY <1>5 DEF New, registry, At, Goes
<1>6. ASSUME NEW p \in Processes, NEW s \in Stores, Enters(p, s, "register", "registering") PROVE AbsentEmpty'
  BY <1>6 DEF Enters, At, Goes
<1>7. ASSUME NEW p \in Processes, NEW s \in Stores, Enters(p, s, "unregister", "unregistering") PROVE AbsentEmpty'
  BY <1>7 DEF Enters, At, Goes
<1>8. ASSUME NEW p \in Processes, NEW s \in Stores, RegisterRefused(p, s) PROVE AbsentEmpty'
  BY <1>8 DEF RegisterRefused, LeavesRegistry, PathOwned, At, Goes
<1>9. ASSUME NEW p \in Processes, NEW s \in Stores, Register(p, s) PROVE AbsentEmpty'
  BY <1>9 DEF Register, LeavesRegistry, PathOwned, At, Goes
<1>10. ASSUME NEW p \in Processes, NEW s \in Stores, Unregister(p, s) PROVE AbsentEmpty'
  BY <1>10 DEF Unregister, LeavesRegistry, Discarded, At, Goes
<1>11. ASSUME NEW p \in Processes, NEW s \in Stores, FileOpened(p, s) PROVE AbsentEmpty'
  <2> DEFINE f == CHOOSE g \in Unused : TRUE
  <2>1. f \in Files /\ f \notin Opened(file) /\ file' = [file EXCEPT ![p][s] = f]
    BY <1>11 DEF FileOpened, Unused
  <2> HIDE DEF f
  <2> QED
    BY <1>11, <2>1 DEF FileOpened, registry, At, Goes
<1>12. ASSUME NEW p \in Processes, NEW s \in Stores, FlockFails(p, s) PROVE AbsentEmpty'
  BY <1>12 DEF FlockFails, registry, CloseFile, At, Goes
<1>13. ASSUME NEW p \in Processes, NEW s \in Stores, Loaded(p, s) PROVE AbsentEmpty'
  BY <1>13 DEF Loaded, registry, At, Goes
<1>14. ASSUME NEW p \in Processes, NEW s \in Stores, LoadFails(p, s) PROVE AbsentEmpty'
  BY <1>14 DEF LoadFails, registry, LetsGo, CloseFile, Unlocked, At, Goes
<1>15. ASSUME NEW p \in Processes, NEW s \in Stores, Shutdown(p, s) PROVE AbsentEmpty'
  BY <1>15 DEF Shutdown, registry, At
<1>16. ASSUME NEW p \in Processes, NEW s \in Stores, Collect(p, s) PROVE AbsentEmpty'
  BY <1>16 DEF Collect, registry, LetsGo, CloseFile, Unlocked, At, Goes
<1>17. ASSUME NEW p \in Processes, NEW s \in Stores, Repair(p, s) PROVE AbsentEmpty'
  BY <1>17 DEF Repair, registry, LetsGo, CloseFile, OnlyClosed, At, Goes
<1>18. CASE UNCHANGED vars
  BY <1>18 DEF vars, registry, store
<1>19. ASSUME NEW p \in Processes, NEW s \in Stores, FileRefused(p, s) PROVE AbsentEmpty'
  BY <1>19 DEF FileRefused, registry, At, Goes
<1>20. ASSUME NEW p \in Processes, NEW s \in Stores, FlockTaken(p, s) PROVE AbsentEmpty'
  BY <1>20 DEF FlockTaken, registry, At, Goes
<1>21. ASSUME NEW p \in Processes, NEW s \in Stores, NEW t \in Stores, CollectInside(p, s, t) PROVE AbsentEmpty'
  BY <1>21 DEF CollectInside, CloseFile, Unlocked, At
<1> QED
  BY <1>1, <1>2, <1>3, <1>4, <1>5, <1>6, <1>7, <1>8, <1>9, <1>10, <1>11, <1>12, <1>13, <1>14, <1>15, <1>16, <1>17, <1>18, <1>19, <1>20, <1>21 DEF Next, EnterRegistry, Registry, Opening

\* The registry is right about the stores of its process.
LEMMA RegisteredStep ==
  ASSUME TypeOK, InsideLocked, AbsentEmpty, RegisteredOnce, [Next]_vars PROVE RegisteredOnce'
<1> USE OwnershipAssumption DEF TypeOK, InsideLocked, AbsentEmpty, RegisteredOnce, Named
<1>1. ASSUME NEW p \in Processes, Start(p) PROVE RegisteredOnce'
  BY <1>1 DEF Start, registry, store
<1>2. ASSUME NEW p \in Processes, Dies(p) PROVE RegisteredOnce'
  BY <1>2 DEF Dies
<1>3. ASSUME NEW p \in Processes, HookDone(p) PROVE RegisteredOnce'
  BY <1>3 DEF HookDone, registry, store
<1>4. ASSUME NEW p \in Processes, NEW child \in Processes, Fork(p, child) PROVE RegisteredOnce'
  BY <1>4 DEF Fork, Copied
<1>5. ASSUME NEW p \in Processes, NEW s \in Stores, New(p, s) PROVE RegisteredOnce'
  <2>1. \A q \in Processes : \A t \in Stores :
          /\ pc'[q][t] \in Named <=> pc[q][t] \in Named
          /\ pc'[q][t] = "frozen" <=> pc[q][t] = "frozen"
    BY <1>5 DEF New, registry, At, Goes
  <2>2. UNCHANGED owned
    BY <1>5 DEF New, registry, At, Goes
  <2> QED
    BY <2>1, <2>2
<1>6. ASSUME NEW p \in Processes, NEW s \in Stores, Enters(p, s, "register", "registering") PROVE RegisteredOnce'
  <2>1. \A q \in Processes : \A t \in Stores :
          /\ pc'[q][t] \in Named <=> pc[q][t] \in Named
          /\ pc'[q][t] = "frozen" <=> pc[q][t] = "frozen"
    BY <1>6 DEF Enters, At, Goes
  <2>2. UNCHANGED owned
    BY <1>6 DEF Enters, At, Goes
  <2> QED
    BY <2>1, <2>2
<1>7. ASSUME NEW p \in Processes, NEW s \in Stores, Enters(p, s, "unregister", "unregistering") PROVE RegisteredOnce'
  <2>1. \A q \in Processes : \A t \in Stores :
          /\ pc'[q][t] \in Named <=> pc[q][t] \in Named
          /\ pc'[q][t] = "frozen" <=> pc[q][t] = "frozen"
    BY <1>7 DEF Enters, At, Goes
  <2>2. UNCHANGED owned
    BY <1>7 DEF Enters, At, Goes
  <2> QED
    BY <2>1, <2>2
<1>8. ASSUME NEW p \in Processes, NEW s \in Stores, RegisterRefused(p, s) PROVE RegisteredOnce'
  <2>1. \A q \in Processes : \A t \in Stores :
          /\ pc'[q][t] \in Named <=> pc[q][t] \in Named
          /\ pc'[q][t] = "frozen" <=> pc[q][t] = "frozen"
    BY <1>8 DEF RegisterRefused, LeavesRegistry, PathOwned, At, Goes
  <2>2. UNCHANGED owned
    BY <1>8 DEF RegisterRefused, LeavesRegistry, PathOwned, At, Goes
  <2> QED
    BY <2>1, <2>2
<1>9. ASSUME NEW p \in Processes, NEW s \in Stores, Register(p, s) PROVE RegisteredOnce'
  BY <1>9 DEF Register, LeavesRegistry, PathOwned, At, Goes
<1>10. ASSUME NEW p \in Processes, NEW s \in Stores, Unregister(p, s) PROVE RegisteredOnce'
  BY <1>10 DEF Unregister, LeavesRegistry, Discarded, At, Goes
<1>11. ASSUME NEW p \in Processes, NEW s \in Stores, FileOpened(p, s) PROVE RegisteredOnce'
  BY <1>11 DEF FileOpened, registry, At, Goes
<1>12. ASSUME NEW p \in Processes, NEW s \in Stores, FlockFails(p, s) PROVE RegisteredOnce'
  BY <1>12 DEF FlockFails, registry, CloseFile, At, Goes
<1>13. ASSUME NEW p \in Processes, NEW s \in Stores, Loaded(p, s) PROVE RegisteredOnce'
  BY <1>13 DEF Loaded, registry, At, Goes
<1>14. ASSUME NEW p \in Processes, NEW s \in Stores, LoadFails(p, s) PROVE RegisteredOnce'
  BY <1>14 DEF LoadFails, registry, LetsGo, CloseFile, Unlocked, At, Goes
<1>15. ASSUME NEW p \in Processes, NEW s \in Stores, Shutdown(p, s) PROVE RegisteredOnce'
  BY <1>15 DEF Shutdown, registry, At
<1>16. ASSUME NEW p \in Processes, NEW s \in Stores, Collect(p, s) PROVE RegisteredOnce'
  BY <1>16 DEF Collect, registry, LetsGo, CloseFile, Unlocked, At, Goes
<1>17. ASSUME NEW p \in Processes, NEW s \in Stores, Repair(p, s) PROVE RegisteredOnce'
  BY <1>17 DEF Repair, registry, LetsGo, CloseFile, OnlyClosed, At, Goes
<1>18. CASE UNCHANGED vars
  BY <1>18 DEF vars, registry, store
<1>19. ASSUME NEW p \in Processes, NEW s \in Stores, FileRefused(p, s) PROVE RegisteredOnce'
  BY <1>19 DEF FileRefused, registry, At, Goes
<1>20. ASSUME NEW p \in Processes, NEW s \in Stores, FlockTaken(p, s) PROVE RegisteredOnce'
  BY <1>20 DEF FlockTaken, registry, At, Goes
<1>21. ASSUME NEW p \in Processes, NEW s \in Stores, NEW t \in Stores, CollectInside(p, s, t) PROVE RegisteredOnce'
  BY <1>21 DEF CollectInside, CloseFile, Unlocked, At
<1> QED
  BY <1>1, <1>2, <1>3, <1>4, <1>5, <1>6, <1>7, <1>8, <1>9, <1>10, <1>11, <1>12, <1>13, <1>14, <1>15, <1>16, <1>17, <1>18, <1>19, <1>20, <1>21 DEF Next, EnterRegistry, Registry, Opening

\* The lock stays with the store that relies on it.
LEMMA ReliedStep ==
  ASSUME TypeOK, AbsentEmpty, LockRelied, [Next]_vars PROVE LockRelied'
<1> USE OwnershipAssumption DEF TypeOK, AbsentEmpty, LockRelied, Relies, Harmless, Named, HolderIn, Opened
<1>1. ASSUME NEW p \in Processes, Start(p) PROVE LockRelied'
  BY <1>1 DEF Start, registry, store
<1>2. ASSUME NEW p \in Processes, Dies(p) PROVE LockRelied'
  BY <1>2 DEF Dies
<1>3. ASSUME NEW p \in Processes, HookDone(p) PROVE LockRelied'
  BY <1>3 DEF HookDone, registry, store
<1>4. ASSUME NEW p \in Processes, NEW child \in Processes, Fork(p, child) PROVE LockRelied'
  BY <1>4 DEF Fork, Copied
<1>5. ASSUME NEW p \in Processes, NEW s \in Stores, New(p, s) PROVE LockRelied'
  BY <1>5 DEF New, registry, At, Goes
<1>6. ASSUME NEW p \in Processes, NEW s \in Stores, Enters(p, s, "register", "registering") PROVE LockRelied'
  BY <1>6 DEF Enters, At, Goes
<1>7. ASSUME NEW p \in Processes, NEW s \in Stores, Enters(p, s, "unregister", "unregistering") PROVE LockRelied'
  BY <1>7 DEF Enters, At, Goes
<1>8. ASSUME NEW p \in Processes, NEW s \in Stores, RegisterRefused(p, s) PROVE LockRelied'
  BY <1>8 DEF RegisterRefused, LeavesRegistry, PathOwned, At, Goes
<1>9. ASSUME NEW p \in Processes, NEW s \in Stores, Register(p, s) PROVE LockRelied'
  BY <1>9 DEF Register, LeavesRegistry, PathOwned, At, Goes
<1>10. ASSUME NEW p \in Processes, NEW s \in Stores, Unregister(p, s) PROVE LockRelied'
  BY <1>10 DEF Unregister, LeavesRegistry, Discarded, At, Goes
<1>11. ASSUME NEW p \in Processes, NEW s \in Stores, FileOpened(p, s) PROVE LockRelied'
  <2> DEFINE f == CHOOSE g \in Unused : TRUE
  <2>1. /\ f \in Files /\ file' = [file EXCEPT ![p][s] = f]
        /\ \A q \in Processes : \A t \in Stores : file[q][t] # f
    BY <1>11 DEF FileOpened, Unused
  <2>2. /\ pc[p][s] = "file" /\ pc' = [pc EXCEPT ![p][s] = "flock"]
        /\ UNCHANGED <<process, live, holder>>
    BY <1>11 DEF FileOpened, registry, At, Goes
  <2> HIDE DEF f
  <2>3. ~live[p][s]
    BY <2>2
  <2>4. ASSUME NEW q \in Processes, NEW t \in Stores, <<q, t>> # <<p, s>>
        PROVE  /\ file'[q][t] = file[q][t] /\ pc'[q][t] = pc[q][t]
               /\ Relies(q, t)' <=> Relies(q, t)
               /\ Harmless(q, t)' <=> Harmless(q, t)
    BY <2>1, <2>2, <2>4
  <2>5. /\ file'[p][s] = f /\ f # 0 /\ pc'[p][s] = "flock"
        /\ ~Relies(p, s)' /\ ~Relies(p, s) /\ ~Harmless(p, s)
    BY <2>1, <2>2, <2>3
  <2>6. file[p][s] = 0
    BY <2>2
  <2> HIDE DEF Relies, Harmless
  <2> QED
    BY <2>1, <2>2, <2>4, <2>5, <2>6
<1>12. ASSUME NEW p \in Processes, NEW s \in Stores, FlockFails(p, s) PROVE LockRelied'
  BY <1>12 DEF FlockFails, registry, CloseFile, At, Goes
<1>13. ASSUME NEW p \in Processes, NEW s \in Stores, Loaded(p, s) PROVE LockRelied'
  BY <1>13 DEF Loaded, registry, At, Goes
<1>14. ASSUME NEW p \in Processes, NEW s \in Stores, LoadFails(p, s) PROVE LockRelied'
  BY <1>14 DEF LoadFails, registry, LetsGo, CloseFile, Unlocked, At, Goes
<1>15. ASSUME NEW p \in Processes, NEW s \in Stores, Shutdown(p, s) PROVE LockRelied'
  BY <1>15 DEF Shutdown, registry, At
<1>16. ASSUME NEW p \in Processes, NEW s \in Stores, Collect(p, s) PROVE LockRelied'
  <2>1. ASSUME NEW q \in Processes, NEW t \in Stores, Relies(q, t)'
        PROVE  Relies(q, t) /\ <<q, t>> # <<p, s>>
    BY <1>16, <2>1 DEF Collect, registry, LetsGo, CloseFile, At, Goes
  <2>2. ASSUME NEW q \in Processes, NEW t \in Stores, Relies(q, t)'
        PROVE  holder' = holder
    <3>1. holder = file[q][t] /\ <<q, t>> # <<p, s>>
      BY <2>1, <2>2
    <3>2. ~Harmless(p, s)
      BY <1>16 DEF Collect, At
    <3>3. file[p][s] # file[q][t]
      <4> HIDE DEF Relies, Harmless
      <4> QED
        BY <2>1, <2>2, <3>1, <3>2 DEF LockRelied
    <3> QED
      BY <1>16, <3>1, <3>3 DEF Collect, Unlocked
  <2> QED
    BY <1>16, <2>1, <2>2 DEF Collect, registry, LetsGo, CloseFile, At, Goes
<1>17. ASSUME NEW p \in Processes, NEW s \in Stores, Repair(p, s) PROVE LockRelied'
  BY <1>17 DEF Repair, registry, LetsGo, CloseFile, OnlyClosed, At, Goes
<1>18. CASE UNCHANGED vars
  BY <1>18 DEF vars, registry, store
<1>19. ASSUME NEW p \in Processes, NEW s \in Stores, FileRefused(p, s) PROVE LockRelied'
  BY <1>19 DEF FileRefused, registry, At, Goes
<1>20. ASSUME NEW p \in Processes, NEW s \in Stores, FlockTaken(p, s) PROVE LockRelied'
  BY <1>20 DEF FlockTaken, registry, At, Goes
<1>21. ASSUME NEW p \in Processes, NEW s \in Stores, NEW t \in Stores, CollectInside(p, s, t) PROVE LockRelied'
  BY <1>21 DEF CollectInside, CloseFile, Unlocked, At
<1> QED
  BY <1>1, <1>2, <1>3, <1>4, <1>5, <1>6, <1>7, <1>8, <1>9, <1>10, <1>11, <1>12, <1>13, <1>14, <1>15, <1>16, <1>17, <1>18, <1>19, <1>20, <1>21 DEF Next, EnterRegistry, Registry, Opening

-----------------------------------------------------------------------------
\* The beginning has all five.
LEMMA InitInvariant == Init => IInv
  BY OwnershipAssumption
  DEF Init, IInv, TypeOK, InsideLocked, AbsentEmpty, RegisteredOnce, LockRelied, Relies, Named

LEMMA StepInvariant == IInv /\ [Next]_vars => IInv'
  BY TypeStep, InsideStep, AbsentStep, RegisteredStep, ReliedStep DEF IInv

LEMMA Invariance == Spec => []IInv
  BY InitInvariant, StepInvariant, PTL DEF Spec

\* A set whose members are all the same has at most one.
LEMMA AtMostOne ==
  ASSUME NEW S, \A x, y \in S : x = y
  PROVE  Cardinality(S) <= 1
<1>1. CASE S = {}
  BY <1>1, FS_EmptySet
<1>2. CASE S # {}
  <2>1. PICK x \in S : S = {x}
    BY <1>2
  <2> QED
    BY <2>1, FS_Singleton
<1> QED
  BY <1>1, <1>2

\* The state of every process, and the descriptors it keeps, are typed, whatever
\* the number of processes (persistence.py:38-41).
THEOREM TypeCorrect == Spec => []TypeOK
  BY Invariance, PTL DEF IInv

\* However constructors, finalizers and forks interleave, a process has at most one
\* store for the path, and the registry is right (persistence.py:263-270, 299-303).
THEOREM OneStore == Spec => []OneStorePerProcess
<1>1. ASSUME IInv PROVE OneStorePerProcess
  <2> USE <1>1 DEF IInv, RegisteredOnce
  <2>1. ASSUME NEW p \in Processes PROVE Cardinality(Registered(p)) <= 1
    <3>1. \A s, t \in Registered(p) : s = t
      BY DEF Registered
    <3> QED
      BY <3>1, AtMostOne
  <2>2. ASSUME NEW p \in Processes
        PROVE  /\ Registered(p) # {} => owned[p]
               /\ owned[p] => Registered(p) # {} \/ \E s \in Stores : pc[p][s] = "frozen"
    BY DEF Registered
  <2> QED
    BY <2>1, <2>2 DEF OneStorePerProcess
<1> QED
  BY <1>1, Invariance, PTL

\* The advisory lock belongs to the one live owner, whatever is forked, repaired,
\* collected or killed around it (persistence.py:165-183, 277-303).
THEOREM LiveOwner == Spec => []LiveOwnerHoldsLock
<1>1. ASSUME IInv PROVE LiveOwnerHoldsLock
  <2> USE <1>1 DEF IInv
  <2>1. ASSUME NEW o \in LiveOwners
        PROVE  /\ o[1] \in Processes /\ o[2] \in Stores /\ o = <<o[1], o[2]>>
               /\ Relies(o[1], o[2]) /\ ~Harmless(o[1], o[2])
               /\ holder # 0 /\ holder = file[o[1]][o[2]]
    BY DEF LiveOwners, Relies, Harmless, LockRelied, TypeOK
  <2>2. \A o, n \in LiveOwners : o = n
    BY <2>1 DEF LockRelied
  <2>3. Cardinality(LiveOwners) <= 1
    BY <2>2, AtMostOne
  <2> QED
    BY <2>1, <2>3 DEF LiveOwnerHoldsLock
<1> QED
  BY <1>1, Invariance, PTL
=============================================================================
