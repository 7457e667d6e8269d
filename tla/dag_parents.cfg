CONSTANTS
  Nodes = {n1, n2}
  Configs <- MCConfigs
SPECIFICATION Spec
INVARIANT ParentsUnrelated
CHECK_DEADLOCK FALSE
