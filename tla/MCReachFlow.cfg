SPECIFICATION Spec
CONSTANTS
  Blocks <- MCBlocks
  Defs <- MCDefs
  CFGs <- MCCFGs
  Ranks <- MCRanks
INVARIANT AllVariablesFlowingIn
\* the analysis ends
CHECK_DEADLOCK FALSE
