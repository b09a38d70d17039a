\* Quitting while a job is on its way.
SPECIFICATION FairSpec
CONSTANTS
  a = a
  b = b
  c = c
  d = d
  f1 = f1
  f2 = f2
  Empty = Empty
  Frames = {a, b, c, d}
  Files = {f1, f2}
  Missing = {}
  FileContents <- TwoFiles
  CommandLine <- OneNamed
  Imports <- NoImports
  DropFrames = {}
  Cells = {}
  MaxSlots = 2
  GridSize = 4
  MaxRequests = 1
PROPERTY ShutdownEnds
