\* What must be false: a turn that ended keeps nothing moving.
CONSTANTS
  Parts = {"turns"}
  ReplyEvents = 5
  ToolEvents = 4
  TurnEvents = 4
  Peers = {p1, p2}
  ReplayCap = 2
  LiveCap = 1
  MaxPending = 1
  MaxLines = 3
  MaxAcceptErrors = 1
  Sessions = {sA, sB}
  DefaultSession = sA
  UnknownTypes = {u}
  None = None
  HostSeqs = {0, 5, 6, 7}
  SeqMax = 7
  MaxHostLines = 4
  Turns = {t1}
  Handles = {h1}
  Requests = {r1}
  Questions = {k1}
  MaxWrites = 1
  StreamIds = {s1}
  ToolIds = {o1, o2}
  Pieces <- MCPieces
  TrailCap = 2
  MaxTurnEvents = 6
  Widths = {2, 5}
  Heights = {2, 4}
  Rows <- MCRows
  Frames <- MCFrames
  MaxPrinted = 2
  MaxResizes = 2
  Items = {"i1", "i2"}
  Updates <- MCUpdates
  LogCap = 3
  Page = 1
  MaxReports = 3
  Dirs = {"A/", "B/"}
  MaxHistory = 2
  MaxUndo = 1
  EchoCap = 1
  MaxLength = 2
  Chips <- MCChips
  MaxKeys = 4
  Sizes <- MCSizes
  Recorded <- MCRecorded
  Queries = {"x", "y"}
  MaxViewKeys = 6
  ScreenHeights = {6, 9, 12, 18, 24, 50}
  Widgets <- MCWidgets
  Gap = 1
  Frame = 2
  Second = 3
  Window = 3
  ToastFor = 4
  ShowFor = 4
  ActionFor = 2
  Cycle = 4
  InView = 3
  MaxTime = 5
  MaxClockInputs = 3
  Typings <- MCTypings
  MaxBits = 4
  sA = sA
  sB = sB
  u = u
  Hosted <- MCHosted
  EventIds = {"e1"}
  Stores <- MCStores
  BatchSize = 2
  ChannelCap = 2
  MaxRecordedLines = 4
SPECIFICATION Spec
INVARIANT TurnEndStillsScreen
CHECK_DEADLOCK FALSE
