CONSTANTS
  p1 = p1
  p2 = p2
  l1 = l1
  f1 = f1
  w1 = w1
  w2 = w2
  a1 = a1
  a2 = a2
  b1 = b1
  Id = {p1, p2, l1, f1, w1, w2, a1, a2, b1}
  Requests <- MCRequests
  PERMISSION_ARM = 1
  MaxFilter = 1
  MaxAsked = 3
  MaxCancels = 1
SPECIFICATION Spec
INVARIANTS
  TypeOK
  AnsweredAtMostOnce
  PermissionsAccounted
  QueueIsServed
  PermissionsInOrder
  ReadBeforeGranted
  WizardsComplete
PROPERTY ImplementsPermissionQueue
CHECK_DEADLOCK FALSE
