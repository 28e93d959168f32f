SPECIFICATION Spec
CONSTANTS
  TempName <- MCTempName
  LabelName <- MCLabelName
  ProcLabel <- MCProcLabel
  ValueOf <- MCValueOf
  Names <- MCNames
  TempNames <- MCTempNames
  Labels <- MCLabels
  Envs <- MCEnvs
  Fuel = 8
  Trees <- MCTrees
  Programs <- MCPrograms
INVARIANT JumpsHaveEdges
CHECK_DEADLOCK FALSE
