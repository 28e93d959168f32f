SPECIFICATION Spec
CONSTANTS
  TempName <- MCTempName
  LabelName <- MCLabelName
  ProcLabel <- MCProcLabel
  ValueOf <- MCValueOf
  Names <- MCNames
  TempNames <- MCTempNames
  Labels <- MCLabels
  LongNames <- MCLongNames
  Envs <- MCEnvs
  Fuel = 22
  Trees <- MCTrees
INVARIANT TypeOK
INVARIANT SimpleLoopsAreTwoBlocks
INVARIANT CopyIsTheLoop
INVARIANT LoopEdgesAreTheFlow
INVARIANT MapLoopsKeepTheirMeaning
\* compilation ends, or stops at a fault
CHECK_DEADLOCK FALSE
