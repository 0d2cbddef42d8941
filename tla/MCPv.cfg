SPECIFICATION FairSpec
CONSTANTS
  BUFFER_SIZE = 3
  SEM_VALUE_MAX = 4
  a = a
  upA = upA
  NUL = NUL
  Letters <- MCLetters
  toupper <- MCtoupper
INVARIANTS
  TokensBalance
  FullCountsLetters
  ScansFindTheirCell
PROPERTIES
  PipelineFlows
