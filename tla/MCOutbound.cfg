SPECIFICATION Spec
CONSTANTS
  callA = callA
  callB = callB
  callC = callC
  k1 = k1
  k2 = k2
  k3 = k3
  NoCall = NoCall
  Calls <- MCCalls
  Conns <- MCConns
  MaxCount = 2
INVARIANTS
  PoolBounded
  RetiredHoldsNone
  TraceJoined
PROPERTIES
  Quiesces
