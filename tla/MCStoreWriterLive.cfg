CONSTANTS
  s1 = s1
  t1 = t1
  b1 = b1
  b2 = b2
  h1 = h1
  Fresh = Fresh
  Streams = {s1}
  Tools = {t1}
  Bodies = {b1, b2}
  HostIds = {h1}
  Shapes <- MCStreamShapes
  OutputCap = 3
  ChanCap = 1
  MaxSeq = 2
  MaxFlush = 1
  MaxDiskErrors = 1
SPECIFICATION FairSpec
PROPERTY EventuallySettled
CHECK_DEADLOCK FALSE
