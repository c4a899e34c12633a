SPECIFICATION LabSpec
CONSTANTS
  None = None
  Task = {"p", "q"}
  Workloads <- MCWorkloads
  Dir = {"bin", "sbin", "work", "proc"}
  File = {"tool", "make", "lib.so"}
  BinDir = {"bin", "sbin"}
  NoiseDir = {"proc"}
  Inside = {"work"}
  SharedObject = {"lib.so"}
  Dotted = {"lib.so"}
  Excluded = {}
  Resolvable = {"tool"}
  Loopback = {"local"}
  SearchPath <- MCSearchPath
  Reply <- MCReply
  MaxLines = 4
INVARIANTS
  EverythingElseResolves
CHECK_DEADLOCK FALSE
