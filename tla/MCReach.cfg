SPECIFICATION FairSpec
CONSTANTS
  Blocks <- MCBlocks
  Defs <- MCDefs
  CFGs <- MCCFGs
  Ranks <- MCRanks
INVARIANT TypeOK
INVARIANT NothingInvented
INVARIANT NoDefinitionVanishes
INVARIANT OutIsOfferedToAll
PROPERTY InNeverShrinks
PROPERTY Terminates
\* the analysis ends
CHECK_DEADLOCK FALSE
