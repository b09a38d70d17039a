\* A buffer of 7, ticks of 2, up to 8 points offered.
SPECIFICATION DriverSpec
CONSTANTS
  BUFFER_SZ = 7
  TickPoints = 2
  MinSpace = 1
  MaxPoints = 8
INVARIANT FillInBuffer
