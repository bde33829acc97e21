\* A signal while a child has the terminal.
CONSTANTS
  HasStore = TRUE
  ChanCap = 1
  BatchMax = 2
  MaxInputs = 2
SPECIFICATION FairSpec
PROPERTY
  SignalsExit
CHECK_DEADLOCK FALSE
