\* Every file of up to four sections, whole or cut off, and then another one.
SPECIFICATION ImportSpec
CONSTANTS
  Sections <- MCSections
  MaxSections = 4
  Second <- MCSecond
  Default <- MCDefault
  Black = "black"
  Garbage = "garbage"
  NotIlda = 99
  TooMany <- MCTooMany
INVARIANTS FramesAsMeant OneGoesToTheCell
