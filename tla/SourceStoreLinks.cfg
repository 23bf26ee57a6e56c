\* A push and a sync replace the links of a source at once.
SPECIFICATION Spec
CONSTANTS
  sync = sync
  push = push
  again = again
  rebuild = rebuild
  P1 = P1
  P2 = P2
  NoCall = NoCall
  Calls <- SyncAndPush
  LinksOnly = {}
  Targets <- TwoTargets
  ChunkCount <- Chunked
  LinkOrder <- Apart
  MaxFaults = 0
INVARIANT LinksOfOneCopy
\* Every call ends.
CHECK_DEADLOCK FALSE
