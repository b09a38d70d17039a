\* A file loaded at the start, then two requests of any kind.
SPECIFICATION FairSpec
CONSTANTS
  a = a
  b = b
  c = c
  d = d
  f1 = f1
  f2 = f2
  Empty = Empty
  Frames = {a, b, c, d}
  Files = {f1, f2}
  Missing = {f2}
  FileContents <- TwoFiles
  CommandLine <- OneNamed
  Imports <- SomeImports
  DropFrames = {d}
  Cells = {0, 1}
  MaxSlots = 3
  GridSize = 2
  MaxRequests = 2
INVARIANTS FirstGridConsistent LocksFollowJobs SavesWhatStays ImportStaysUnsaved
PROPERTY JobsEnd
