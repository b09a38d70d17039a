\* Every call, every mode, three positions.
SPECIFICATION FairSpec
CONSTANTS
  Slots = {s1, s2, s3}
  NoSlot = NoSlot
  SelectionModes = {"SINGLE", "MULTIPLE", "SHUFFLE"}
  StepModes = {"ONCE", "LOOP", "MANUAL", "BEAT"}
INVARIANTS TypeOK CurrentIsFront NoDuplicates SingleHoldsOne LitIsSelected
PROPERTIES RemovalDumps LoopPlaysEverySelection
