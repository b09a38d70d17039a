\* A text that is longer than two buffers, cut into pieces that are shorter
\* and longer than one; the disk takes nothing, part of the file, all but the
\* trailer, or all.
SPECIFICATION FairSpec
CONSTANTS
  TextLength = 6
  bufferSize = 2
  Pieces = {1, 3}
  ReadSizes = {1, 4}
  Rooms = {0, 4, 7, 8}
INVARIANTS FileIsPrefix SavedIsWhole
PROPERTIES StreamSpec LoadEnds
