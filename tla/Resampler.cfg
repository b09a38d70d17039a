\* Buffers of three points; frames below, at and above their size.
SPECIFICATION ResamplerSpec
CONSTANTS
  RESAMPLE_SZ = 3
  hlen = 1
  MaxPhases = 5
  Rates <- UpDownAndRefused
  FrameSizes = {0, 1, 3, 7}
  MaxFrames = 4
INVARIANTS AlmostAllWritten OnePointEach
