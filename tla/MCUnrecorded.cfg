SPECIFICATION TrialSpec
CONSTANTS
  Conn = {c1, c2}
  api = api
  db = db
  Dest <- MCDest
INVARIANTS
  EveryRequestIsRecorded
CHECK_DEADLOCK FALSE
