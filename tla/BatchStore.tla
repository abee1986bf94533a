----------------------------- MODULE BatchStore -----------------------------
(***************************************************************************)
(* FileBatchStore (src/alitycs/persistence.py): the write-ahead log of one *)
(* persistence path, kept in memory and rewritten to its file by every     *)
(* mutation, under the store's lock.                                       *)
(*                                                                         *)
(* A mutation is three steps: the records change in memory and a synced    *)
(* temporary file is prepared; os.replace, or unlink of an empty log, puts *)
(* it in place; the directory is synced and the call returns.  Before the  *)
(* second step it may raise instead, and the records are rolled back.  The *)
(* process may be killed at any point, and the power may fail at any       *)
(* point: then a replacement whose directory entry is not yet synced may   *)
(* be undone.  survivors is the set of what the file may then hold.        *)
(*                                                                         *)
(* A definition marked "mutant" is the next one with a bug put into it; no *)
(* specification uses it.                                                  *)
(***************************************************************************)
EXTENDS Integers, Sequences, FiniteSets, SequencesExt

CONSTANTS
  Batch,             \* batch ids
  EventCount,        \* how many events each batch has
  MaxPendingEvents,  \* _max_pending_events
  Times,             \* the times a record may be paused until
  DiskMayFail,       \* whether writing the file may raise
  DirectorySync,     \* whether the platform syncs directories
  PowerMayFail       \* whether the machine, not just the process, may stop

ASSUME StoreAssumption ==
  /\ EventCount \in [Batch -> Nat \ {0}]
  /\ MaxPendingEvents \in Nat \ {0}
  /\ Times \subseteq Nat /\ 0 \in Times
  /\ {DiskMayFail, DirectorySync, PowerMayFail} \subseteq BOOLEAN

VARIABLES
  open,       \* a store owns the path and has loaded the file
  records,    \* _records, in insertion order
  file,       \* what the path holds, <<>> when there is no file
  survivors,  \* what it may hold after a power failure
  write       \* the mutation in progress, which has the store's lock

storeVars == <<open, records, file, survivors, write>>

\* paused_until is 0 for None: neither makes a replay wait.
Record(b, until) == [batch |-> b, until |-> until]
Ids(contents) == {contents[i].batch : i \in DOMAIN contents}

\* The events of the records, which have distinct ids, and how many there are.
EventsOf(contents) == UNION {{b} \X (1 .. EventCount[b]) : b \in Ids(contents)}
PendingEvents(contents) == Cardinality(EventsOf(contents))

NoWrite == [stage |-> "none", previous |-> <<>>]
Unlocked == open /\ write = NoWrite

\* What _load accepts; anything else makes the constructor raise.
Loadable(contents) ==
  /\ \A i, k \in DOMAIN contents : contents[i].batch = contents[k].batch => i = k
  /\ PendingEvents(contents) <= MaxPendingEvents

StoreInit ==
  /\ open = TRUE /\ records = <<>>
  /\ file = <<>> /\ survivors = {<<>>}
  /\ write = NoWrite

\* The part of a mutation that all have in common.
Mutates(contents) ==
  /\ Unlocked
  /\ records' = contents
  /\ write' = [stage |-> "begun", previous |-> records]
  /\ UNCHANGED <<open, file, survivors>>

FitsOneTooMany(b) == PendingEvents(records) <= MaxPendingEvents \* mutant
Fits(b) == PendingEvents(records) + EventCount[b] <= MaxPendingEvents

PutBegins(b) ==
  /\ b \notin Ids(records) /\ Fits(b)
  /\ Mutates(Append(records, Record(b, 0)))

AcknowledgeBegins(b) ==
  \E i \in DOMAIN records : records[i].batch = b /\ Mutates(RemoveAt(records, i))

PauseBegins(b, until) ==
  /\ b \in Ids(records)
  /\ Mutates([i \in DOMAIN records |->
               IF records[i].batch = b THEN Record(b, until) ELSE records[i]])

NoRollback == \* mutant
  /\ DiskMayFail /\ write.stage = "begun"
  /\ write' = NoWrite
  /\ UNCHANGED <<open, records, file, survivors>>

WriteFails ==
  /\ DiskMayFail /\ write.stage = "begun"
  /\ records' = write.previous
  /\ write' = NoWrite
  /\ UNCHANGED <<open, file, survivors>>

ReplaceUnsynced == \* mutant
  /\ write.stage = "begun"
  /\ file' = records
  /\ survivors' = survivors \cup {records, <<>>}
  /\ write' = [write EXCEPT !.stage = "replaced"]
  /\ UNCHANGED <<open, records>>

ReplaceFile ==
  /\ write.stage = "begun"
  /\ file' = records
  /\ survivors' = survivors \cup {records}
  /\ write' = [write EXCEPT !.stage = "replaced"]
  /\ UNCHANGED <<open, records>>

WriteReturnsUnsynced == \* mutant
  /\ write.stage = "replaced"
  /\ write' = NoWrite
  /\ UNCHANGED <<open, records, file, survivors>>

WriteReturns ==
  /\ write.stage = "replaced"
  /\ survivors' = IF DirectorySync THEN {file} ELSE survivors
  /\ write' = NoWrite
  /\ UNCHANGED <<open, records, file>>

Stops == open' = FALSE /\ records' = <<>> /\ write' = NoWrite

ProcessDies == open /\ Stops /\ UNCHANGED <<file, survivors>>

PowerFails ==
  /\ PowerMayFail
  /\ Stops
  /\ file' \in survivors
  /\ survivors' = {file'}

\* A new store on the same path.
Opens ==
  /\ ~open /\ Loadable(file)
  /\ open' = TRUE
  /\ records' = file
  /\ UNCHANGED <<file, survivors, write>>

StoreNext ==
  \/ \E b \in Batch : \/ PutBegins(b) \/ AcknowledgeBegins(b)
                      \/ \E until \in Times : PauseBegins(b, until)
  \/ WriteFails \/ ReplaceFile \/ WriteReturns
  \/ ProcessDies \/ PowerFails \/ Opens

StoreSpec == StoreInit /\ [][StoreNext]_storeVars

-----------------------------------------------------------------------------
\* Memory never runs away from the file: outside a mutation the records are what
\* a restart would load, a mutation that has not replaced the file can be rolled
\* back to what the file holds, and one that has cannot fail any more
\* (persistence.py:114-123, 130-137, 156-165).
MemoryMatchesFile ==
  /\ open /\ write.stage \in {"none", "replaced"} => records = file
  /\ write.stage = "begun" => write.previous = file
  /\ write.stage \in {"begun", "replaced"} => open
  /\ file \in survivors
=============================================================================
