SPECIFICATION SupervisorSpec
CONSTANTS
  Proc = {leader, root, child}
  Leader = leader
  Root = root
PROPERTIES
  DeadlineHolds
CHECK_DEADLOCK FALSE
