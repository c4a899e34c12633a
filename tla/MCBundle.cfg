CONSTANTS
  None = None
  Torn = Torn
  Cmd <- MCCmd
  Kind <- MCKind
  MaxRevision = 2
  MaxOverlap = 2
SPECIFICATION Spec
INVARIANTS
  ChainHolds
  ManifestSeals
  ClaimsHold
  LockEarned
CHECK_DEADLOCK FALSE
