CONSTANTS
  Deployments <- MCDeployments
  MaxTerminals = 2
SPECIFICATION Spec
INVARIANTS
  RestartKeepsKey
  SuccessIsTrue
PROPERTIES
  TerminalsEnd
  DialogSettles
CHECK_DEADLOCK FALSE
