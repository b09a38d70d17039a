\* A child without frames in the middle; one playback with every mode, or two.
SPECIFICATION FairSpec
CONSTANTS
  NumChildren = 3
  ChildFrames <- WithEmpty
  Playbacks = {"head", "preview"}
  InGui = {"preview"}
  Modes = {"Sequential", "Random", "Pingpong"}
  Habits <- AloneOrWithout
  MaxRepeats = 2
INVARIANT IndexInTable
PROPERTIES NextFrameReturns EveryChildShown
