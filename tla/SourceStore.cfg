\* A source written by two syncs of different copies, a push and a rebuild of its
\* links, with one fault.
SPECIFICATION FairSpec
CONSTANTS
  sync = sync
  push = push
  again = again
  rebuild = rebuild
  P1 = P1
  P2 = P2
  NoCall = NoCall
  Calls <- AllCalls
  LinksOnly <- Rebuilds
  Targets <- TwoTargets
  ChunkCount <- Chunked
  LinkOrder <- Linked
  MaxFaults = 1
INVARIANTS TypeOK ChunkWritersNeverDeadlock
PROPERTIES ChunksReplacedAtOnce EveryCallEnds
\* Every call ends.
CHECK_DEADLOCK FALSE
