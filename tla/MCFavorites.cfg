\* Two refreshes and two edits at one time.
CONSTANTS
  u1 = u1  u2 = u2  i1 = i1  i2 = i2  Nobody = Nobody  Pending = Pending  Failed = Failed
  Users <- OneUser
  Kinds <- OneKind
  Items <- TwoItems
  MaxRefreshes = 2
  MaxEdits = 2
  MaxList = 2
SPECIFICATION Spec
INVARIANTS Inv
PROPERTIES Converges
CHECK_DEADLOCK FALSE
