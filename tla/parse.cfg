CONSTANTS
  Cases <- ParseCases
  MaskOperands <- MCMaskOperands
  Words <- MCWords
  MaskTexts <- MCMaskTexts
  PriorValue <- MCPriorValue
  HexTexts <- MCHexTexts
  HexFormats <- MCHexFormats
  TargetNames <- MCTargetNames
  HeaderTexts <- MCHeaderTexts
  VulkanRequests <- MCVulkanRequests
  ListLayouts <- MCListLayouts
  LiteralOperands <- MCLiteralOperands
SPECIFICATION OperandSpec
\* A parse reads one operand and stops.
CHECK_DEADLOCK FALSE
INVARIANTS
  ParseFailsOnOverflow
  ParseFailureGivesPositiveZero
  MaskParseMatchesReference
  HexReadMatchesReference
  ParseTargetEnvLongestMatch
  EnvTablesAgree
  ReadEnvironmentMatchesHeader
  ParseVulkanEnvLeastCapable
  TargetEnvListLayout
  IntegerLiteralReadsBack
  LiteralRoundTrip
PROPERTY
  MaskTerminates
