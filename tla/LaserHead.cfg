\* Sources of 0, 1 and 2 frames of 3 points, a driver buffer of 4.
SPECIFICATION FairSpec
CONSTANTS
  SourceLengths = {0, 1, 2}
  FramePoints = 3
  BufferSize = 4
  LowWater = 1
  Drain = 2
INVARIANT AtMostOneLateSource
PROPERTIES DarkStaysDark KillDarkens
