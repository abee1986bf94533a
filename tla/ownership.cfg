CONSTANTS
  Processes = {p, q}
  Stores = {s1, s2}
  Files = {1, 2, 3, 4}
  Free = Free
  Ghost = Ghost
SPECIFICATION FairSpec
INVARIANTS TypeOK OneStorePerProcess LiveOwnerHoldsLock
PROPERTY NothingHangs
