SPECIFICATION Spec
CONSTANTS
  edge = edge
  inner = inner
  user = user
  other = other
  Bad = Bad
  Blank = Blank
  Addrs <- MCAddrs
  CIDRs <- MCCIDRs
  MaxHops = 3
  MaxForged = 1
INVARIANTS
  AttributionUnforgeable
  IdentityUnforgeable
