SPECIFICATION Spec
CONSTANTS
  u1 = u1
  u2 = u2
  p = p
  file = file
  guide = guide
  text = text
  nothing = nothing
  guide1 = guide1
  guide2 = guide2
  NoCopy = NoCopy
  NoFile = NoFile
  Uploads = {u1, u2}
  Pushes = {p}
  Keys = {file, guide}
  Copies = {text, nothing, guide1, guide2}
  Docs <- MCDocs
  ChunkCount <- MCChunkCount
  MaxJobs = 1
  MaxFaults = 1
INVARIANT TypeOK
INVARIANT ListedFileCanBeRead
INVARIANT RowAndChunksAgree
INVARIANT StoredOnce
PROPERTY EverythingEnds
CHECK_DEADLOCK FALSE
