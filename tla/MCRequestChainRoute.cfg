SPECIFICATION Spec
CONSTANTS
  r1 = r1
  r2 = r2
  Requests <- MCOne
  Kinds <- MCWriter
  MaxInFlight = 0
  BodyLimited = TRUE
  HandlerTimed = TRUE
  Statuses = {200, 503}
INVARIANT RouteLogged
