CONSTANTS
  None = None
  Torn = Torn
  Cmd <- MCCmd
  Kind <- MCKind
  MaxRevision = 2
  MaxOverlap = 1
SPECIFICATION Spec
INVARIANTS
  VerifiedLockReplayed
CHECK_DEADLOCK FALSE
