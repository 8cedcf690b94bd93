SPECIFICATION ApiSpec
CONSTANTS
  Limit = 3
  MaxLen = 5
  Statuses = {400, 413, 500, 503}
  MaxDepth = 2
  MaxJoined = 2
INVARIANTS
  AcceptedExactly
  EveryFailureReported
  StatusFitsObjects
  PointerSound
