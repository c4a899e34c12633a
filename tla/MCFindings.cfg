SPECIFICATION FindingsSpec
CONSTANTS
  \* Intervention and ProveTruth
  Net = {1, 2}
  Exe = {11, 12}
  Ubiquitous = {11}
  Signature = {"timeout", "refused"}
  NoSignature = NoSignature
  MaxRuns = 2
  Sightings <- MCSightings
  Policies <- MCPolicies
  Capabilities <- MCCapabilities
  Natures <- MCNatures
  Answers <- MCAnswers
  \* Inspect
  Host = {1, 2, 3, 4}
  Variable = {11, 12, 13}
  Scheme = {"https"}
  Uninteresting = {4}
  Placeholder = {3}
  MaxEndpoints = 5
  MaxSources = 2
  Repositories <- MCRepositories
  DefaultPort <- MCDefaultPort
  \* Planner
  Command = {"pytest", "lint", "tests", "pip", "setup", "publish", "cd"}
  Trait <- MCTrait
  NoFile = "none"
  Script <- MCScript
  Target <- MCTarget
  Recipe <- MCRecipe
  File = {"Makefile", "setup.py", "run.sh"}
  MaxMined = 3
INVARIANTS
  MergeIsExact
  BlameIsCovered
  LabelsAreTrue
  EverythingDecided
  RequiredSuffices
  NothingLost
  UnknownIsFlagged
  DetailsAreDeclared
  ProposalsStayProposals
  InventoryAgrees
  GraphIsSound
  RunsTheBest
PROPERTY NeverReversed
\* An intervention, an analysis and a command end.
CHECK_DEADLOCK FALSE
