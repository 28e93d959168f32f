SPECIFICATION FairSpec
CONSTANTS
  TempName <- MCTempName
  LabelName <- MCLabelName
  ProcLabel <- MCProcLabel
  ValueOf <- MCValueOf
  Names <- MCNames
  TempNames <- MCTempNames
  Labels <- MCLabels
  Envs <- MCEnvs
  Fuel = 8
  Trees <- MCTrees
  Programs <- MCPrograms
INVARIANT TypeOK
INVARIANT RewritingKeepsMeaning
INVARIANT JumpsTestTheirComparison
INVARIANT CodeCanBeCut
INVARIANT DominatesIsDominance
INVARIANT LoopsHaveOneEntrance
INVARIANT OnlyTheFrontFails
INVARIANT LoopsAreWhiles
PROPERTY Terminates
CHECK_DEADLOCK FALSE
