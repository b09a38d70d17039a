\* Two cells and four changes, enough to fill a colour rotator, drop on it and
\* drag the result back.
SPECIFICATION Spec
CONSTANTS
  Addresses = {1, 2, 3, 4, 5, 6, 7, 8}
  Cells = {1, 2}
  Picture = "imported"
  Foreign <- Rotated
  Kinds = {"Frame_sequencer", "Colour_modulator"}
  MaxChanges = 4
  Harmonics = {500}
  Modes = {"Random"}
INVARIANTS NothingShared ItemsShowSource
PROPERTIES AssertionsHold CellsStay CellsGetCopies
