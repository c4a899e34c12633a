SPECIFICATION FairSpec
CONSTANTS
  Net = {1, 2, 3}
  Exe = {11, 12}
  Ubiquitous = {11}
  Signature = {"timeout", "refused"}
  NoSignature = NoSignature
  Policies <- MCPolicies
  Capabilities <- MCCapabilities
  Natures <- MCNatures
  Answers <- MCAnswers
INVARIANTS
  TypeOK
  ReplayReserved
  LabelsAreEarned
  TrailHolds
  RecordsAgree
  ToolingFirst
  BundleAgrees
PROPERTIES
  KeepsPromise
  Termination
CHECK_DEADLOCK FALSE
