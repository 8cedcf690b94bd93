SPECIFICATION FairSpec
CONSTANTS
  r1 = r1
  r2 = r2
  Requests <- MCTwo
  Kinds <- MCKinds
  MaxInFlight = 1
  BodyLimited = TRUE
  HandlerTimed = TRUE
  Statuses = {200, 503}
INVARIANTS
  SlotsBalanced
  SingleStatusLine
  EntryTellsWire
  ResponsesDressed
  PanicAccounted
  OversizedDropped
PROPERTY NoQueueing
