\* Users of ONCE and users of MANUAL and BEAT, in one run.
SPECIFICATION FairSpec
CONSTANTS
  Slots = {s1, s2}
  NoSlot = NoSlot
  SelectionModes = {"SINGLE", "MULTIPLE", "SHUFFLE"}
  Habits <- EitherHabit
  MaxQueue = 2
INVARIANTS NoDuplicates IndicatorsSettle DeselectedIsStopped
PROPERTY SelectedGetsProjected
