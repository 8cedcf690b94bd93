SPECIFICATION Spec
CONSTANTS
  Width = 8
  ByteUnits <- MCByteUnits
  RenderUnits <- MCRenderUnits
  Durations <- MCDurations
  Counts <- MCCounts
  MaxSet = 3
INVARIANTS
  RunsAsWritten
  AllReportedAtOnce
  LoggedReadsBack
  ExportsWhereTold
