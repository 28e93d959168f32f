SPECIFICATION FrontEndSpec
CONSTANTS
  Streams <- MCStreams
  ValueOf <- MCValueOf
  OperationOf <- MCOperationOf
  MaximumArguments <- MCMaximumArguments
  Uninitialized <- MCUninitialized
  TempName <- MCTempName
  LabelName <- MCLabelName
  ProcLabel <- MCProcLabel
INVARIANT TypeOK
INVARIANT ScopesAreNested
INVARIANT TreeIsWhatWasRead
INVARIANT NamesMeanTheirDeclaration
INVARIANT CodeIsConnected
PROPERTY Ends
CHECK_DEADLOCK FALSE
