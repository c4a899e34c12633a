SPECIFICATION LaboratorySpec
CONSTANTS
  Proc = {leader, root, child, daemon}
  Leader = leader
  Root = root
  Conn = {c1, c2}
  api = api
  db = db
  Dest <- MCDest
INVARIANTS
  SupervisorTypeOK
  QuietAfterRun
  PassedMeansFinished
  TrialTypeOK
  SeqAccounted
  AnswersAreAccounted
  DenialHolds
  SightingsAreTrue
PROPERTIES
  ReturnsWhenContained
  ShutdownReturns
\* The workload may end and the supervisor return, the trial is over when the
\* log has been read: nothing happens then.
CHECK_DEADLOCK FALSE
