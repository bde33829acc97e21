\* Drawing while a child has the terminal.
CONSTANTS
  HasStore = TRUE
  ChanCap = 2
  BatchMax = 2
  MaxInputs = 2
SPECIFICATION FairSpec
PROPERTY
  NoDrawingOverChild
CHECK_DEADLOCK FALSE
