SPECIFICATION Spec
CONSTANTS
  Net = {1, 2, 3}
  Exe = {11, 12}
  Ubiquitous = {11}
  Signature = {"timeout", "refused"}
  NoSignature = NoSignature
  Policies <- MCPolicies
  Capabilities <- MCCapabilities
  Natures <- MCNatures
  Answers <- MCAnswers
INVARIANT NoCandidateForgotten
CHECK_DEADLOCK FALSE
