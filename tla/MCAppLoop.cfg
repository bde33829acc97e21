\* The loop with a session store, so that the transcript opens, on two inputs.
CONSTANTS
  HasStore = TRUE
  ChanCap = 2
  BatchMax = 2
  MaxInputs = 2
SPECIFICATION FairSpec
INVARIANTS
  TypeOK
  FrameCacheIsTrue
  ChildHasTerminal
  ReaderIsWoken
PROPERTIES
  ChangesAreDrawn
  KeysAreRead
CHECK_DEADLOCK FALSE
