SPECIFICATION Spec
CONSTANTS
  Model <- Models
  Config <- Configs
  QWeight <- Row
  None = None
  AlignA4 = 4
  AlignA8 = 2
  AlignN = 8
  MaxRanks = 2
  MaxInputs = 2
  MaxPolicies = 2
INVARIANTS
  TypeOK
  DeploymentComplete
  UsesOwnWeights
  ProfileHonoured
